---- MODULE Spec2Model ----
(***************************************************************************)
(* Node fleet manager: the launchpad status component (Status::update and  *)
(* the node-management worker it drives) and the add/provision engine      *)
(* (sn_node_manager::add_services::add).                                   *)
(***************************************************************************)
EXTENDS Integers, Sequences, FiniteSets, TLC

(***************************************************************************)
(* Bounds of the model.                                                    *)
(***************************************************************************)
\* largest node count the user stores with StoreNodesToStart
MaxNodes == 1
\* tasks waiting for the node-management worker
MaxQueue == 2
\* actions waiting in the application's action channel
MaxChan == 1
\* largest count of one add call
MaxCount == 2
\* largest number of node records the add calls build up
MaxRegistry == 3
\* number of node records in the registry of an upgrade
MaxFleet == 2
\* largest number of archives uploaded with archive_put
MaxStored == 1
MaxSelected == 3

(***************************************************************************)
(* Program constants.                                                      *)
(***************************************************************************)
MAX_ERRORS_WHILE_RUNNING_NAT_DETECTION == 3
FIXED_INTERVAL == 60000
PORT_MIN == 49152
PORT_MAX == 65535

(***************************************************************************)
(* State of the status component, of the worker and of the registry file. *)
(***************************************************************************)
VARIABLES
    \* Status fields
    lock_registry,                      \* Option<LockRegistryState>
    action_sender,                      \* Option<UnboundedSender<Action>>: registered or not
    node_services,                      \* Vec<NodeServiceData>: the active fleet view
    nodes_to_start,
    rewards_address,
    connection_mode,
    is_nat_status_determined,
    error_while_running_nat_detection,
    port_from, port_to,                 \* Option<u32>
    items,                              \* Option<StatefulTable<NodeItem>>: the names of the rows
    table_state,                        \* StatefulTable.state.selected and .last_selected
    \* the application's action channel: worker events and returned actions
    action_rx,
    \* node-management worker: the tasks sent to it and not yet reported; it is
    \* executing the first
    task_queue,
    \* the node registry file
    registry,
    \* the action Status::update handled in the last step ("-" when the step
    \* was not a call of Status::update)
    handled,
    \* the session has handled StatusActions::SuccessfullyDetectedNatStatus
    nat_detected

\* State of the add/provision engine (sn_node_manager::add_services)
VARIABLES
    node_registry,      \* the NodeRegistry the caller passes to add (&mut NodeRegistry)
    disk_registry,      \* the registry file, as last written by NodeRegistry::save
    staged,             \* the binary staged at options.safenode_bin_path exists
    call,               \* the add call in progress: its options, locals and result
    service_manager     \* the services ServiceControl::install has defined, in order

\* State of the archive client (autonomi::client::files::archive)
VARIABLES
    archive,            \* the local PrivateArchive
    network,            \* the data stored on the network by data_put
    put_log,            \* the (address, archive) pairs of the archive_put calls that succeeded
    archive_op          \* the last operation of the client, its arguments and its result

add_vars == <<node_registry, disk_registry, staged, call, service_manager>>
archive_vars == <<archive, network, put_log, archive_op>>

status_vars == <<lock_registry, action_sender, node_services, nodes_to_start,
                 rewards_address, connection_mode, is_nat_status_determined,
                 error_while_running_nat_detection, port_from, port_to, items,
                 table_state>>
launchpad_vars == <<lock_registry, action_sender, node_services, nodes_to_start,
                    rewards_address, connection_mode, is_nat_status_determined,
                    error_while_running_nat_detection, port_from, port_to, items,
                    table_state, action_rx, task_queue, registry, handled, nat_detected>>
vars == <<launchpad_vars, add_vars, archive_vars>>

None == "None"
\* Option<T>: None is the empty sequence, Some(v) the sequence of v
NoneOpt == <<>>
Some(v) == <<v>>
IsSome(o) == o # <<>>
Unwrap(o) == o[1]
UnwrapOr(o, d) == IF o = <<>> THEN d ELSE o[1]
\* Option<PeerId>::None, and the peer id a node announces when it first starts
NoPeerId == <<>>
PeerIdOf(number) == <<"12D3KooW", number>>
LockRegistryState == {"StartingNodes", "StoppingNodes", "ResettingNodes", "UpdatingNodes"}

\* inputs of the presentation layer
RewardsAddresses == {"", "0xA"}
ConnectionModes == {"Automatic", "CustomPorts"}
\* (port_from, port_to) of StorePortRange, two u32: a range inside
\* [PORT_MIN, PORT_MAX], and two with a value that does not fit 16 bits
PortRangeInputs == {<<49152, 49154>>, <<65536, 65540>>, <<65000, 65600>>}

(***************************************************************************)
(* Tasks and actions.                                                      *)
(***************************************************************************)
NoTask == [type |-> "NoTask", count |-> 0, run_nat_detection |-> FALSE,
           port_range |-> <<>>,
           services |-> <<>>, peer_ids |-> <<>>, start_nodes_after_reset |-> FALSE,
           do_not_start |-> FALSE, fixed_interval |-> 0]

\* `x as u16`
U16(x) == x % 65536
\* PortRange::Range(from, to)
PortRange(from, to) == <<from, to>>

MaintainNodesTask(count, nat, port_range) ==
    [NoTask EXCEPT !.type = "MaintainNodes", !.count = count, !.run_nat_detection = nat,
                   !.port_range = port_range]
StopNodesTask(services) ==
    [NoTask EXCEPT !.type = "StopNodes", !.services = services]
ResetNodesTask(start_after) ==
    [NoTask EXCEPT !.type = "ResetNodes", !.start_nodes_after_reset = start_after]
UpgradeNodesTask(names, peers) ==
    [NoTask EXCEPT !.type = "UpgradeNodes", !.services = names, !.peer_ids = peers,
                   !.do_not_start = TRUE, !.fixed_interval = FIXED_INTERVAL]

Act(type) == [type |-> type, trigger_start_node |-> FALSE]
ResetNodesCompletedAct(trigger) == [type |-> "ResetNodesCompleted", trigger_start_node |-> trigger]

CompletionEvents == {"StartNodesCompleted", "StopNodesCompleted",
                     "UpdateNodesCompleted", "ResetNodesCompleted"}
ErrorEvents == {"ErrorScalingUpNodes", "ErrorStoppingNodes",
                "ErrorUpdatingNodes", "ErrorResettingNodes"}

(***************************************************************************)
(* Helpers of Status.                                                      *)
(***************************************************************************)
\* a variant of the load that keeps every record
ActiveNodes_unfiltered(reg) == reg.nodes
\* load_node_registry_and_update_states: the nodes that are not Removed
ActiveNodes(reg) == SelectSeq(reg.nodes, LAMBDA n : n.status # "Removed")

RECURSIVE MapNames(_)
MapNames(s) == IF s = <<>> THEN <<>> ELSE <<Head(s).service_name>> \o MapNames(Tail(s))
\* PeerId::to_string: the text of a peer id
to_string(peer_id) == <<"str">> \o peer_id
RECURSIVE MapPeers(_)
MapPeers(s) ==
    IF s = <<>> THEN <<>> ELSE <<to_string(Head(s).peer_id)>> \o MapPeers(Tail(s))

get_running_nodes(services) ==
    MapNames(SelectSeq(services, LAMBDA n : n.status = "Running"))

\* get_service_names_and_peer_ids: only the nodes with a peer id, in order
get_service_names(services) ==
    MapNames(SelectSeq(services, LAMBDA n : n.peer_id # NoPeerId))
\* a variant of the peer id list that has an entry for every node
get_peer_ids_of_all(services) == MapPeers(services)
get_peer_ids(services) ==
    MapPeers(SelectSeq(services, LAMBDA n : n.peer_id # NoPeerId))

\* a variant of should_we_run_nat_detection that does not look at the count of
\* failed probes
should_we_run_nat_detection_uncapped ==
    /\ connection_mode = "Automatic"
    /\ ~is_nat_status_determined

should_we_run_nat_detection ==
    /\ connection_mode = "Automatic"
    /\ ~is_nat_status_determined
    /\ error_while_running_nat_detection < MAX_ERRORS_WHILE_RUNNING_NAT_DETECTION

\* get_actions_sender()? followed by node_management.send_task(task)?: without a
\* registered sender the handler returns the error before anything is sent
SendTask(task) ==
    task_queue' = IF action_sender THEN Append(task_queue, task) ELSE task_queue

LoadNodeRegistry ==
    /\ is_nat_status_determined' = registry.nat_status
    /\ node_services' = ActiveNodes(registry)

\* clear_node_items: the rows of an existing table are dropped
clear_node_items(its) == IF IsSome(its) THEN Some(<<>>) ELSE NoneOpt

\* update_node_items: an existing table gets a row for every node of
\* node_services it has no row for; without a table one is built from
\* node_services
RECURSIVE PushMissing(_, _)
PushMissing(rows, names) ==
    IF names = <<>> THEN rows
    ELSE PushMissing(IF \E i \in 1..Len(rows) : rows[i] = Head(names)
                     THEN rows ELSE Append(rows, Head(names)),
                     Tail(names))
update_node_items(its, services) ==
    IF IsSome(its) THEN Some(PushMissing(Unwrap(its), MapNames(services)))
    ELSE Some(MapNames(services))

(***************************************************************************)
(* Status::update, one operator per action.  rx is what remains in the     *)
(* action channel once the handled action is taken out of it; an action    *)
(* the handler returns (Ok(Some(action))) is sent back into the channel.   *)
(***************************************************************************)
StoreNodesToStart(count, rx) ==
    /\ nodes_to_start' = count
    /\ action_rx' = Append(rx, IF count = 0 THEN Act("StopNodes") ELSE Act("StartNodes"))
    /\ handled' = "StoreNodesToStart"
    /\ UNCHANGED <<table_state, items, nat_detected,
                   lock_registry, action_sender, node_services, rewards_address,
                   connection_mode, is_nat_status_determined,
                   error_while_running_nat_detection, port_from, port_to,
                   task_queue, registry>>

StoreRewardsAddress(addr, rx) ==
    LET has_changed == rewards_address # addr
        we_have_nodes == node_services # <<>>
    IN  /\ rewards_address' = addr
        /\ IF we_have_nodes /\ has_changed
           THEN /\ lock_registry' = "ResettingNodes"
                /\ SendTask(ResetNodesTask(FALSE))
           ELSE UNCHANGED <<lock_registry, task_queue>>
        /\ action_rx' = rx
        /\ handled' = "StoreRewardsAddress"
        /\ UNCHANGED <<table_state, items, nat_detected,
                       action_sender, node_services, nodes_to_start, connection_mode,
                       is_nat_status_determined, error_while_running_nat_detection,
                       port_from, port_to, registry>>

StoreStorageDrive(rx) ==
    /\ lock_registry' = "ResettingNodes"
    /\ SendTask(ResetNodesTask(FALSE))
    /\ action_rx' = rx
    /\ handled' = "StoreStorageDrive"
    /\ UNCHANGED <<table_state, items, nat_detected,
                   action_sender, node_services, nodes_to_start, rewards_address,
                   connection_mode, is_nat_status_determined,
                   error_while_running_nat_detection, port_from, port_to,
                   registry>>

StoreConnectionMode(mode, rx) ==
    /\ lock_registry' = "ResettingNodes"
    /\ connection_mode' = mode
    /\ SendTask(ResetNodesTask(FALSE))
    /\ action_rx' = rx
    /\ handled' = "StoreConnectionMode"
    /\ UNCHANGED <<table_state, items, nat_detected,
                   action_sender, node_services, nodes_to_start, rewards_address,
                   is_nat_status_determined, error_while_running_nat_detection,
                   port_from, port_to, registry>>

StorePortRange(from, to, rx) ==
    /\ lock_registry' = "ResettingNodes"
    /\ port_from' = Some(from)
    /\ port_to' = Some(to)
    /\ SendTask(ResetNodesTask(FALSE))
    /\ action_rx' = rx
    /\ handled' = "StorePortRange"
    /\ UNCHANGED <<table_state, items, nat_detected,
                   action_sender, node_services, nodes_to_start, rewards_address,
                   connection_mode, is_nat_status_determined,
                   error_while_running_nat_detection, registry>>

\* StartNodesCompleted | StopNodesCompleted
StartStopNodesCompleted(type, rx) ==
    /\ lock_registry' = None
    /\ LoadNodeRegistry
    /\ action_rx' = rx
    /\ handled' = type
    /\ UNCHANGED <<table_state, items, nat_detected,
                   action_sender, nodes_to_start, rewards_address, connection_mode,
                   error_while_running_nat_detection, port_from, port_to,
                   task_queue, registry>>

UpdateNodesCompleted(rx) ==
    /\ lock_registry' = None
    /\ LoadNodeRegistry
    /\ items' = update_node_items(clear_node_items(items), node_services')
    /\ action_rx' = rx
    /\ handled' = "UpdateNodesCompleted"
    /\ UNCHANGED <<table_state, nat_detected,
                   action_sender, nodes_to_start, rewards_address, connection_mode,
                   error_while_running_nat_detection, port_from, port_to,
                   task_queue, registry>>

\* a variant of the ResetNodesCompleted handler that keeps the lock
ResetNodesCompleted_locked(trigger_start_node, rx) ==
    /\ LoadNodeRegistry
    /\ items' = clear_node_items(items)
    /\ action_rx' = IF trigger_start_node THEN Append(rx, Act("StartNodes")) ELSE rx
    /\ handled' = "ResetNodesCompleted"
    /\ UNCHANGED <<table_state, nat_detected, lock_registry,
                   action_sender, nodes_to_start, rewards_address, connection_mode,
                   error_while_running_nat_detection, port_from, port_to,
                   task_queue, registry>>

ResetNodesCompleted(trigger_start_node, rx) ==
    /\ lock_registry' = None
    /\ LoadNodeRegistry
    /\ items' = clear_node_items(items)
    /\ action_rx' = IF trigger_start_node THEN Append(rx, Act("StartNodes")) ELSE rx
    /\ handled' = "ResetNodesCompleted"
    /\ UNCHANGED <<table_state, nat_detected,
                   action_sender, nodes_to_start, rewards_address, connection_mode,
                   error_while_running_nat_detection, port_from, port_to,
                   task_queue, registry>>

SuccessfullyDetectedNatStatus(rx) ==
    /\ is_nat_status_determined' = TRUE
    /\ nat_detected' = TRUE
    /\ action_rx' = rx
    /\ handled' = "SuccessfullyDetectedNatStatus"
    /\ UNCHANGED <<table_state, items,
                   lock_registry, action_sender, node_services, nodes_to_start,
                   rewards_address, connection_mode, error_while_running_nat_detection,
                   port_from, port_to, task_queue, registry>>

ErrorWhileRunningNatDetection(rx) ==
    /\ error_while_running_nat_detection' = error_while_running_nat_detection + 1
    /\ action_rx' = rx
    /\ handled' = "ErrorWhileRunningNatDetection"
    /\ UNCHANGED <<table_state, items, nat_detected,
                   lock_registry, action_sender, node_services, nodes_to_start,
                   rewards_address, connection_mode, is_nat_status_determined,
                   port_from, port_to, task_queue, registry>>

\* ErrorScalingUpNodes, ErrorStoppingNodes, ErrorUpdatingNodes, ErrorResettingNodes:
\* each shows the error popup and returns SwitchInputMode(Entry), which Status
\* does not handle
ErrorEvent(type, rx) ==
    /\ action_rx' = rx
    /\ handled' = type
    /\ UNCHANGED <<table_state, items, nat_detected,
                   lock_registry, action_sender, node_services, nodes_to_start,
                   rewards_address, connection_mode, is_nat_status_determined,
                   error_while_running_nat_detection, port_from, port_to,
                   task_queue, registry>>

\* TriggerManageNodes and TriggerRewardsAddress only switch the scene
TriggerAction(type, rx) ==
    /\ action_rx' = rx
    /\ handled' = type
    /\ UNCHANGED <<table_state, items, nat_detected,
                   lock_registry, action_sender, node_services, nodes_to_start,
                   rewards_address, connection_mode, is_nat_status_determined,
                   error_while_running_nat_detection, port_from, port_to,
                   task_queue, registry>>

StartNodes(rx) ==
    /\ handled' = "StartNodes"
    /\ UNCHANGED <<table_state, items, nat_detected,
                   action_sender, node_services, nodes_to_start, rewards_address,
                   connection_mode, is_nat_status_determined,
                   error_while_running_nat_detection, port_from, port_to,
                   registry>>
    /\ IF rewards_address = ""
       THEN /\ action_rx' = Append(rx, Act("TriggerRewardsAddress"))
            /\ UNCHANGED <<lock_registry, task_queue>>
       ELSE IF nodes_to_start = 0
       THEN /\ action_rx' = Append(rx, Act("TriggerManageNodes"))
            /\ UNCHANGED <<lock_registry, task_queue>>
       ELSE IF lock_registry # None
       THEN /\ action_rx' = rx
            /\ UNCHANGED <<lock_registry, task_queue>>
       ELSE /\ lock_registry' = "StartingNodes"
            /\ SendTask(MaintainNodesTask(
                   U16(nodes_to_start), should_we_run_nat_detection,
                   PortRange(U16(UnwrapOr(port_from, PORT_MIN)),
                             U16(UnwrapOr(port_to, PORT_MAX)))))
            /\ action_rx' = rx

\* StopNodes without the check of the lock
StopNodes_unchecked(rx) ==
    /\ handled' = "StopNodes"
    /\ action_rx' = rx
    /\ UNCHANGED <<table_state, items, nat_detected,
                   action_sender, node_services, nodes_to_start, rewards_address,
                   connection_mode, is_nat_status_determined,
                   error_while_running_nat_detection, port_from, port_to,
                   registry>>
    /\ lock_registry' = "StoppingNodes"
    /\ SendTask(StopNodesTask(get_running_nodes(node_services)))

StopNodes(rx) ==
    /\ handled' = "StopNodes"
    /\ action_rx' = rx
    /\ UNCHANGED <<table_state, items, nat_detected,
                   action_sender, node_services, nodes_to_start, rewards_address,
                   connection_mode, is_nat_status_determined,
                   error_while_running_nat_detection, port_from, port_to,
                   registry>>
    /\ IF lock_registry # None
       THEN UNCHANGED <<lock_registry, task_queue>>
       ELSE /\ lock_registry' = "StoppingNodes"
            /\ SendTask(StopNodesTask(get_running_nodes(node_services)))

\* OptionsActions::UpdateNodes: the registry is reloaded before the lock is checked
UpdateNodes(rx) ==
    /\ handled' = "UpdateNodes"
    /\ action_rx' = rx
    /\ LoadNodeRegistry
    /\ UNCHANGED <<table_state, nat_detected,
                   action_sender, nodes_to_start, rewards_address, connection_mode,
                   error_while_running_nat_detection, port_from, port_to,
                   registry>>
    /\ IF lock_registry # None
       THEN UNCHANGED <<lock_registry, task_queue, items>>
       ELSE /\ lock_registry' = "UpdatingNodes"
            /\ items' = IF action_sender THEN update_node_items(items, node_services')
                        ELSE items
            /\ SendTask(UpgradeNodesTask(get_service_names(node_services'),
                                         get_peer_ids(node_services')))

\* OptionsActions::ResetNodes
ResetNodes(rx) ==
    /\ handled' = "ResetNodes"
    /\ action_rx' = rx
    /\ UNCHANGED <<table_state, items, nat_detected,
                   action_sender, node_services, nodes_to_start, rewards_address,
                   connection_mode, is_nat_status_determined,
                   error_while_running_nat_detection, port_from, port_to,
                   registry>>
    /\ IF lock_registry # None
       THEN UNCHANGED <<lock_registry, task_queue>>
       ELSE /\ lock_registry' = "ResettingNodes"
            /\ SendTask(ResetNodesTask(FALSE))

\* Action::Tick: the rows of the table follow node_services
Tick(rx) ==
    /\ items' = update_node_items(items, node_services)
    /\ action_rx' = rx
    /\ handled' = "Tick"
    /\ UNCHANGED <<table_state, nat_detected,
                   lock_registry, action_sender, node_services, nodes_to_start,
                   rewards_address, connection_mode, is_nat_status_determined,
                   error_while_running_nat_detection, port_from, port_to,
                   task_queue, registry>>

\* StatefulTable: state.selected() and last_selected, both Option<usize>, of
\* the table with_items builds.  A usize is written as the integer it is in
\* two's complement (-1 is usize::MAX); the subtractions and additions of next
\* and previous are then those of the integers, and >= is the unsigned order.
StatefulTable_with_items == [selected |-> NoneOpt, last_selected |-> NoneOpt]
UGe(a, b) == IF (a < 0) = (b < 0) THEN a >= b ELSE a < 0
Select(i) == [selected |-> Some(i), last_selected |-> Some(i)]

\* StatefulTable::next and StatefulTable::previous on a table of len rows
StatefulTable_next(t, len) ==
    Select(IF IsSome(t.selected)
           THEN IF UGe(Unwrap(t.selected), len - 1) THEN 0 ELSE Unwrap(t.selected) + 1
           ELSE UnwrapOr(t.last_selected, 0))
StatefulTable_previous(t, len) ==
    Select(IF IsSome(t.selected)
           THEN IF Unwrap(t.selected) = 0 THEN len - 1 ELSE Unwrap(t.selected) - 1
           ELSE UnwrapOr(t.last_selected, 0))

\* next, resp. previous, evaluates self.items.len() - 1 with no item: the
\* subtraction panics in a build with overflow checks and wraps in one without
next_len_underflows(t, len) == IsSome(t.selected) /\ len = 0
previous_len_underflows(t, len) == t.selected = Some(0) /\ len = 0

\* StatusActions::NextTableItem and StatusActions::PreviousTableItem
TableItem(type, moved, underflows, rx) ==
    /\ UNCHANGED <<items, nat_detected,
                   lock_registry, action_sender, node_services, nodes_to_start,
                   rewards_address, connection_mode, is_nat_status_determined,
                   error_while_running_nat_detection, port_from, port_to,
                   task_queue, registry>>
    /\ IF ~IsSome(items)
       THEN /\ UNCHANGED table_state
            /\ action_rx' = rx
            /\ handled' = type
       ELSE \/ /\ table_state' = moved
               /\ action_rx' = rx
               /\ handled' = type
            \/ /\ underflows
               /\ UNCHANGED <<table_state, action_rx>>
               /\ handled' = "panic"

NextTableItem(rx) ==
    TableItem("NextTableItem", StatefulTable_next(table_state, Len(Unwrap(items))),
              next_len_underflows(table_state, Len(Unwrap(items))), rx)
PreviousTableItem(rx) ==
    TableItem("PreviousTableItem", StatefulTable_previous(table_state, Len(Unwrap(items))),
              previous_len_underflows(table_state, Len(Unwrap(items))), rx)

\* Component::register_action_handler
register_action_handler ==
    /\ ~action_sender
    /\ action_sender' = TRUE
    /\ handled' = "-"
    /\ UNCHANGED <<table_state, items, nat_detected,
                   lock_registry, node_services, nodes_to_start, rewards_address,
                   connection_mode, is_nat_status_determined,
                   error_while_running_nat_detection, port_from, port_to,
                   action_rx, task_queue, registry, add_vars, archive_vars>>

(***************************************************************************)
(* The node-management worker (NodeManagement): a single consumer that     *)
(* takes one task at a time from its queue, operates on the registry file  *)
(* and reports with one completion or error event.                         *)
(***************************************************************************)
NodeRecord(number, status, peer) ==
    [service_name |-> <<"antnode", number>>, number |-> number,
     status |-> status, peer_id |-> peer]

CountRunning(nodes) == Len(SelectSeq(nodes, LAMBDA n : n.status = "Running"))

\* start the first k defined-but-not-running nodes, in order
RECURSIVE StartUpTo(_, _)
StartUpTo(nodes, k) ==
    IF nodes = <<>> THEN <<>>
    ELSE IF k > 0 /\ Head(nodes).status \in {"Added", "Stopped"}
    THEN <<[Head(nodes) EXCEPT !.status = "Running",
                               !.peer_id = PeerIdOf(Head(nodes).number)]>>
         \o StartUpTo(Tail(nodes), k - 1)
    ELSE <<Head(nodes)>> \o StartUpTo(Tail(nodes), k)

\* provision and start k new nodes
RECURSIVE AddRunning(_, _)
AddRunning(nodes, k) ==
    IF k = 0 THEN nodes
    ELSE AddRunning(Append(nodes, NodeRecord(Len(nodes) + 1, "Running",
                                             PeerIdOf(Len(nodes) + 1))), k - 1)

\* stop the last k running nodes
RECURSIVE StopLast(_, _)
StopLast(nodes, k) ==
    IF nodes = <<>> THEN <<>>
    ELSE LET last == nodes[Len(nodes)]
             front == SubSeq(nodes, 1, Len(nodes) - 1)
         IN  IF k > 0 /\ last.status = "Running"
             THEN Append(StopLast(front, k - 1), [last EXCEPT !.status = "Stopped"])
             ELSE Append(StopLast(front, k), last)

\* maintain_n_running_nodes: bring the number of running nodes to count
MaintainNodes(nodes, count) ==
    LET r == CountRunning(nodes)
        started == StartUpTo(nodes, count - r)
    IN  IF r = count THEN nodes
        ELSE IF r > count THEN StopLast(nodes, r - count)
        ELSE AddRunning(started, count - CountRunning(started))

InSeq(x, s) == \E i \in 1..Len(s) : s[i] = x

RECURSIVE StopNamed(_, _)
StopNamed(nodes, names) ==
    IF nodes = <<>> THEN <<>>
    ELSE <<IF InSeq(Head(nodes).service_name, names) /\ Head(nodes).status = "Running"
           THEN [Head(nodes) EXCEPT !.status = "Stopped"] ELSE Head(nodes)>>
         \o StopNamed(Tail(nodes), names)

\* what a task that succeeds leaves in the registry file; newer says whether the
\* upgrade found a newer version (it skips a node already at the target version)
TaskEffect(task, reg, newer) ==
    CASE task.type = "MaintainNodes" ->
            [reg EXCEPT !.nodes = MaintainNodes(reg.nodes, task.count)]
      [] task.type = "StopNodes" ->
            [reg EXCEPT !.nodes = StopNamed(reg.nodes, task.services)]
      [] task.type = "ResetNodes" ->
            [nodes |-> <<>>, nat_status |-> FALSE]
      [] task.type = "UpgradeNodes" ->
            IF newer /\ task.do_not_start
            THEN [reg EXCEPT !.nodes = StopNamed(reg.nodes, task.services)]
            ELSE reg

CompletionOf(task) ==
    CASE task.type = "MaintainNodes" -> Act("StartNodesCompleted")
      [] task.type = "StopNodes" -> Act("StopNodesCompleted")
      [] task.type = "ResetNodes" -> ResetNodesCompletedAct(task.start_nodes_after_reset)
      [] task.type = "UpgradeNodes" -> Act("UpdateNodesCompleted")

ErrorOf(task) ==
    CASE task.type = "MaintainNodes" -> Act("ErrorScalingUpNodes")
      [] task.type = "StopNodes" -> Act("ErrorStoppingNodes")
      [] task.type = "ResetNodes" -> Act("ErrorResettingNodes")
      [] task.type = "UpgradeNodes" -> Act("ErrorUpdatingNodes")

\* the task the worker is executing
running == Head(task_queue)

\* the NAT probe, run once before the first node is started
WorkerNatDetection ==
    /\ task_queue # <<>>
    /\ running.type = "MaintainNodes"
    /\ running.run_nat_detection
    /\ Len(action_rx) < MaxChan
    /\ task_queue' = <<[running EXCEPT !.run_nat_detection = FALSE]>> \o Tail(task_queue)
    /\ \/ /\ registry' = [registry EXCEPT !.nat_status = TRUE]
          /\ action_rx' = Append(action_rx, Act("SuccessfullyDetectedNatStatus"))
       \/ /\ registry' = registry
          /\ action_rx' = Append(action_rx, Act("ErrorWhileRunningNatDetection"))
    /\ handled' = "-"
    /\ UNCHANGED <<status_vars, nat_detected, add_vars, archive_vars>>

WorkerComplete ==
    /\ task_queue # <<>>
    /\ ~running.run_nat_detection
    /\ Len(action_rx) < MaxChan
    /\ \E newer \in BOOLEAN : registry' = TaskEffect(running, registry, newer)
    /\ action_rx' = Append(action_rx, CompletionOf(running))
    /\ task_queue' = Tail(task_queue)
    /\ handled' = "-"
    /\ UNCHANGED <<status_vars, nat_detected, add_vars, archive_vars>>

WorkerFail ==
    /\ task_queue # <<>>
    /\ ~running.run_nat_detection
    /\ Len(action_rx) < MaxChan
    /\ action_rx' = Append(action_rx, ErrorOf(running))
    /\ task_queue' = Tail(task_queue)
    /\ handled' = "-"
    /\ UNCHANGED <<status_vars, registry, nat_detected, add_vars, archive_vars>>

\* a reset that succeeds: the worker reports ResetNodesCompleted with the
\* trigger_start_node it decides on
WorkerResetCompleted ==
    /\ task_queue # <<>>
    /\ running.type = "ResetNodes"
    /\ Len(action_rx) < MaxChan
    /\ registry' = TaskEffect(running, registry, FALSE)
    /\ \E trigger \in BOOLEAN :
          action_rx' = Append(action_rx, ResetNodesCompletedAct(trigger))
    /\ task_queue' = Tail(task_queue)
    /\ handled' = "-"
    /\ UNCHANGED <<status_vars, nat_detected, add_vars, archive_vars>>

(***************************************************************************)
(* The add/provision engine: add_services::add.                            *)
(***************************************************************************)
\* the ports ServiceControl::get_available_port may return: the services add
\* defines are not started, so a port handed out before is still free
Ports == {8081, 8083}

\* AddServiceOptions, the fields add reads
CountInputs == {NoneOpt} \cup {Some(c) : c \in 1..MaxCount}
NodePortInputs == {NoneOpt, Some(12000)}
RpcAddressInputs == {NoneOpt, Some("10.0.0.1")}
BootstrapPeerInputs == {<<>>, <<"/ip4/1">>, <<"/ip4/2", "/ip4/1", "/ip4/2">>}
EnvVariableInputs == {NoneOpt, Some(<<"SN_LOG", "all">>), Some(<<"SN_LOG", "v">>)}
NoOptions ==
    [genesis |-> FALSE, count |-> NoneOpt, node_port |-> NoneOpt,
     rpc_address |-> NoneOpt, bootstrap_peers |-> <<>>, env_variables |-> NoneOpt,
     \* whether safenode_bin_path.file_name() is Some
     has_file_name |-> TRUE]

\* the options of add calls that differ in what decides the numbering and the
\* preconditions: every count with and without an RPC address, a genesis flag,
\* a custom node port, or a download path without a file name
NodeOptions ==
    {[NoOptions EXCEPT !.count = c, !.rpc_address = a] :
        c \in CountInputs, a \in RpcAddressInputs}
    \cup {[NoOptions EXCEPT !.count = c, !.genesis = TRUE] : c \in CountInputs}
    \cup {[NoOptions EXCEPT !.count = c, !.node_port = p] :
        c \in CountInputs, p \in NodePortInputs}
    \cup {[NoOptions EXCEPT !.count = Some(MaxCount), !.genesis = TRUE,
                            !.node_port = Some(12000)]}
    \cup {[NoOptions EXCEPT !.has_file_name = FALSE, !.node_port = p, !.count = c] :
        p \in NodePortInputs, c \in {NoneOpt, Some(MaxCount)}}

\* the options of add calls that differ in the bootstrap peers and environment
\* variables they supply
PeerOptions ==
    {[NoOptions EXCEPT !.bootstrap_peers = b] : b \in BootstrapPeerInputs}
    \cup {[NoOptions EXCEPT !.env_variables = e] : e \in EnvVariableInputs}
    \cup {[NoOptions EXCEPT !.bootstrap_peers = <<"/ip4/1">>,
                            !.env_variables = Some(<<"SN_LOG", "all">>)]}

EmptyNodeRegistry ==
    [nodes |-> <<>>, bootstrap_peers |-> <<>>, environment_variables |-> NoneOpt,
     faucet |-> NoneOpt, daemon |-> NoneOpt]

\* no add call has been made yet
IdleCall ==
    [fn |-> "add", pc |-> "idle", options |-> NoOptions, current_node_count |-> 0,
     target_node_count |-> 0, node_number |-> 0,
     added_service_data |-> <<>>, failed_service_data |-> <<>>,
     calls |-> <<>>, result |-> "-"]

\* format!("safenode{node_number}")
ServiceName(node_number) == <<"safenode", node_number>>

\* a variant that ignores options.rpc_address
RpcSocketAddr_localhost(options, rpc_free_port) == <<"127.0.0.1", rpc_free_port>>

\* SocketAddr::new(options.rpc_address or 127.0.0.1, rpc_free_port)
RpcSocketAddr(options, rpc_free_port) ==
    IF IsSome(options.rpc_address)
    THEN <<Unwrap(options.rpc_address), rpc_free_port>>
    ELSE <<"127.0.0.1", rpc_free_port>>

\* the NodeServiceData add pushes after a successful install
NodeServiceData(options, node_number, rpc_socket_addr) ==
    [service_name |-> ServiceName(node_number),
     number |-> node_number,
     genesis |-> options.genesis,
     rpc_socket_addr |-> rpc_socket_addr,
     status |-> "Added",
     data_dir_path |-> <<"data", ServiceName(node_number)>>,
     log_dir_path |-> <<"log", ServiceName(node_number)>>]

\* InstallNodeServiceCtxBuilder { .. }: what the controller is asked to install
InstallCtx(options, node_number, rpc_socket_addr) ==
    [name |-> ServiceName(node_number),
     genesis |-> options.genesis,
     node_port |-> options.node_port,
     rpc_socket_addr |-> rpc_socket_addr,
     bootstrap_peers |-> options.bootstrap_peers,
     env_variables |-> options.env_variables]

\* a variant that does not look for a genesis node in the registry
Precondition_any_genesis(options, reg) ==
    IF options.genesis /\ IsSome(options.count) /\ Unwrap(options.count) > 1
    THEN "A genesis node can only be added as a single node"
    ELSE IF IsSome(options.count) /\ IsSome(options.node_port)
            /\ Unwrap(options.count) > 1
    THEN "Custom node port can only be used when adding a single service"
    ELSE IF ~options.has_file_name
    THEN "Could not get filename from the safenode download path"
    ELSE "Ok"

\* a variant that does not check the count of a genesis add
Precondition_many_genesis(options, reg) ==
    IF options.genesis /\ \E i \in 1..Len(reg.nodes) : reg.nodes[i].genesis
    THEN "A genesis node already exists"
    ELSE IF IsSome(options.count) /\ IsSome(options.node_port)
            /\ Unwrap(options.count) > 1
    THEN "Custom node port can only be used when adding a single service"
    ELSE IF ~options.has_file_name
    THEN "Could not get filename from the safenode download path"
    ELSE "Ok"

\* a variant that looks at the staged binary path before the custom port
Precondition_file_name_first(options, reg) ==
    IF options.genesis /\ IsSome(options.count) /\ Unwrap(options.count) > 1
    THEN "A genesis node can only be added as a single node"
    ELSE IF options.genesis /\ \E i \in 1..Len(reg.nodes) : reg.nodes[i].genesis
    THEN "A genesis node already exists"
    ELSE IF ~options.has_file_name
    THEN "Could not get filename from the safenode download path"
    ELSE IF IsSome(options.count) /\ IsSome(options.node_port)
            /\ Unwrap(options.count) > 1
    THEN "Custom node port can only be used when adding a single service"
    ELSE "Ok"

\* the checks add makes before it touches anything: "Ok" or the error returned
Precondition(options, reg) ==
    IF options.genesis /\ IsSome(options.count) /\ Unwrap(options.count) > 1
    THEN "A genesis node can only be added as a single node"
    ELSE IF options.genesis /\ \E i \in 1..Len(reg.nodes) : reg.nodes[i].genesis
    THEN "A genesis node already exists"
    ELSE IF IsSome(options.count) /\ IsSome(options.node_port)
            /\ Unwrap(options.count) > 1
    THEN "Custom node port can only be used when adding a single service"
    ELSE IF ~options.has_file_name
    THEN "Could not get filename from the safenode download path"
    ELSE "Ok"

\* a variant that takes every supplied peer
NewBootstrapPeers_all(options, reg) == options.bootstrap_peers

\* the supplied peers the registry does not hold yet, in supplied order
NewBootstrapPeers(options, reg) ==
    SelectSeq(options.bootstrap_peers, LAMBDA peer : ~InSeq(peer, reg.bootstrap_peers))

\* a variant that keeps the environment variables the registry already has
MergeOptions_keep_env(options, reg) ==
    [reg EXCEPT
        !.bootstrap_peers = reg.bootstrap_peers \o NewBootstrapPeers(options, reg),
        !.environment_variables =
            IF IsSome(reg.environment_variables) THEN reg.environment_variables
            ELSE options.env_variables]

\* the registry after the bootstrap peers and the environment variables are stored
MergeOptions(options, reg) ==
    [reg EXCEPT
        !.bootstrap_peers = reg.bootstrap_peers \o NewBootstrapPeers(options, reg),
        !.environment_variables =
            IF IsSome(options.env_variables) THEN options.env_variables
            ELSE reg.environment_variables]

ShouldSave(options, reg) ==
    NewBootstrapPeers(options, reg) # <<>> \/ IsSome(options.env_variables)

\* where the call goes once node_number has been advanced
LoopOrFinish(node_number, target_node_count) ==
    IF node_number <= target_node_count THEN "loop" ELSE "finish"

Returned(c, result) == [c EXCEPT !.pc = "done", !.result = result]

\* what add asks of the controller and of the file system, as the call logs it
PortCall(port) == [op |-> "get_available_port", name |-> <<>>, port |-> port, ok |-> TRUE]
InstallCall(ctx, ok) == [op |-> "install", name |-> ctx.name, port |-> ctx.rpc_socket_addr[2], ok |-> ok]
FsCall(op, name, ok) == [op |-> op, name |-> name, port |-> 0, ok |-> ok]
SaveCall(ok) == FsCall("save", <<>>, ok)
\* create_owned_dir(data), create_owned_dir(log) and std::fs::copy of one node
ProvisionSteps == <<"create_owned_dir(data)", "create_owned_dir(log)", "copy">>
Provisioned(node_number) ==
    [i \in 1..Len(ProvisionSteps) |->
        FsCall(ProvisionSteps[i], ServiceName(node_number), TRUE)]

\* add is called: the precondition checks, the file name of the staged binary,
\* the merge of the bootstrap peers and environment variables, and the locals
\* of the loop
AddCalled(OptionSet) ==
    /\ call.pc \in {"idle", "done"}
    /\ \E options \in OptionSet, save_ok \in BOOLEAN :
        LET pre == Precondition(options, node_registry)
            merged == MergeOptions(options, node_registry)
            current_node_count == Len(node_registry.nodes)
            target_node_count == current_node_count + UnwrapOr(options.count, 1)
            entered == [fn |-> "add", pc |-> "-", options |-> options,
                        current_node_count |-> current_node_count,
                        target_node_count |-> target_node_count,
                        node_number |-> current_node_count + 1,
                        added_service_data |-> <<>>, failed_service_data |-> <<>>,
                        calls |-> <<>>, result |-> "-"]
        IN  /\ target_node_count <= MaxRegistry
            /\ staged' = TRUE
            /\ IF pre # "Ok"
               THEN /\ call' = Returned(entered, pre)
                    /\ UNCHANGED <<node_registry, disk_registry>>
               ELSE /\ node_registry' = merged
                    /\ IF ~ShouldSave(options, node_registry)
                       THEN /\ save_ok
                            /\ UNCHANGED disk_registry
                            /\ call' = [entered EXCEPT !.pc =
                                   LoopOrFinish(entered.node_number, target_node_count)]
                       ELSE IF save_ok
                       THEN /\ disk_registry' = merged
                            /\ call' = [entered EXCEPT
                                   !.calls = <<SaveCall(TRUE)>>,
                                   !.pc = LoopOrFinish(entered.node_number,
                                                       target_node_count)]
                       ELSE /\ UNCHANGED disk_registry
                            /\ call' = Returned(
                                   [entered EXCEPT !.calls = <<SaveCall(FALSE)>>],
                                   "save failed")
    /\ UNCHANGED <<service_manager, launchpad_vars, archive_vars>>

AddBegin == AddCalled(NodeOptions)

\* one turn of the loop that ends in `?`: get_available_port, create_owned_dir
\* (data, log) or std::fs::copy fails and add returns that error
AddNodeAborted ==
    /\ call.pc = "loop"
    /\ \/ call' = Returned(
              [call EXCEPT !.calls =
                  Append(@, [PortCall(0) EXCEPT !.ok = FALSE])],
              "get_available_port failed")
       \/ \E port \in Ports, failed \in 1..Len(ProvisionSteps) :
              call' = Returned(
                  [call EXCEPT !.calls =
                      @ \o <<PortCall(port)>>
                        \o SubSeq(Provisioned(call.node_number), 1, failed - 1)
                        \o <<FsCall(ProvisionSteps[failed],
                                    ServiceName(call.node_number), FALSE)>>],
                  IF ProvisionSteps[failed] = "copy"
                  THEN "copy failed" ELSE "create_owned_dir failed")
    /\ UNCHANGED <<node_registry, disk_registry, staged, service_manager, launchpad_vars, archive_vars>>

\* a variant in which the first install failure ends the call
AddNodeInstallFailed_returns ==
    /\ call.pc = "loop"
    /\ \E port \in Ports :
        LET ctx == InstallCtx(call.options, call.node_number,
                              RpcSocketAddr(call.options, port))
        IN  call' = [call EXCEPT
                !.calls = @ \o <<PortCall(port)>> \o Provisioned(call.node_number)
                            \o <<InstallCall(ctx, FALSE)>>,
                !.failed_service_data = Append(@, ctx.name),
                !.node_number = @ + 1,
                !.pc = "finish"]
    /\ UNCHANGED <<node_registry, disk_registry, staged, service_manager, launchpad_vars, archive_vars>>

\* one turn of the loop in which service_control.install fails
AddNodeInstallFailed ==
    /\ call.pc = "loop"
    /\ \E port \in Ports :
        LET ctx == InstallCtx(call.options, call.node_number,
                              RpcSocketAddr(call.options, port))
        IN  call' = [call EXCEPT
                !.calls = @ \o <<PortCall(port)>> \o Provisioned(call.node_number)
                            \o <<InstallCall(ctx, FALSE)>>,
                !.failed_service_data = Append(@, ctx.name),
                !.node_number = @ + 1,
                !.pc = LoopOrFinish(call.node_number + 1, call.target_node_count)]
    /\ UNCHANGED <<node_registry, disk_registry, staged, service_manager, launchpad_vars, archive_vars>>

\* a variant that pushes the record and does not save the registry
AddNodeInstalled_unsaved ==
    /\ call.pc = "loop"
    /\ \E port \in Ports :
        LET rpc_socket_addr == RpcSocketAddr(call.options, port)
            ctx == InstallCtx(call.options, call.node_number, rpc_socket_addr)
        IN  /\ node_registry' = [node_registry EXCEPT !.nodes =
                    Append(@, NodeServiceData(call.options, call.node_number,
                                              rpc_socket_addr))]
            /\ service_manager' = Append(service_manager, ctx)
            /\ call' = [call EXCEPT
                    !.calls = @ \o <<PortCall(port)>> \o Provisioned(call.node_number)
                                \o <<InstallCall(ctx, TRUE)>>,
                    !.added_service_data = Append(@, ctx.name),
                    !.node_number = @ + 1,
                    !.pc = LoopOrFinish(call.node_number + 1,
                                        call.target_node_count)]
    /\ UNCHANGED <<disk_registry, staged, launchpad_vars, archive_vars>>

\* a variant of the turn that puts the new record in front of the list
AddNodeInstalled_prepends ==
    /\ call.pc = "loop"
    /\ \E port \in Ports, save_ok \in BOOLEAN :
        LET rpc_socket_addr == RpcSocketAddr(call.options, port)
            ctx == InstallCtx(call.options, call.node_number, rpc_socket_addr)
            pushed == [node_registry EXCEPT !.nodes =
                          <<NodeServiceData(call.options, call.node_number,
                                            rpc_socket_addr)>> \o @]
            installed == [call EXCEPT
                !.calls = @ \o <<PortCall(port)>> \o Provisioned(call.node_number)
                            \o <<InstallCall(ctx, TRUE), SaveCall(save_ok)>>,
                !.added_service_data = Append(@, ctx.name)]
        IN  /\ node_registry' = pushed
            /\ service_manager' = Append(service_manager, ctx)
            /\ IF save_ok
               THEN /\ disk_registry' = pushed
                    /\ call' = [installed EXCEPT
                          !.node_number = @ + 1,
                          !.pc = LoopOrFinish(call.node_number + 1,
                                              call.target_node_count)]
               ELSE /\ UNCHANGED disk_registry
                    /\ call' = Returned(installed, "save failed")
    /\ UNCHANGED <<staged, launchpad_vars, archive_vars>>

\* one turn of the loop in which service_control.install succeeds: the record is
\* pushed and the registry saved
AddNodeInstalled ==
    /\ call.pc = "loop"
    /\ \E port \in Ports, save_ok \in BOOLEAN :
        LET rpc_socket_addr == RpcSocketAddr(call.options, port)
            ctx == InstallCtx(call.options, call.node_number, rpc_socket_addr)
            pushed == [node_registry EXCEPT !.nodes =
                          Append(@, NodeServiceData(call.options, call.node_number,
                                                    rpc_socket_addr))]
            installed == [call EXCEPT
                !.calls = @ \o <<PortCall(port)>> \o Provisioned(call.node_number)
                            \o <<InstallCall(ctx, TRUE), SaveCall(save_ok)>>,
                !.added_service_data = Append(@, ctx.name)]
        IN  /\ node_registry' = pushed
            /\ service_manager' = Append(service_manager, ctx)
            /\ IF save_ok
               THEN /\ disk_registry' = pushed
                    /\ call' = [installed EXCEPT
                          !.node_number = @ + 1,
                          !.pc = LoopOrFinish(call.node_number + 1,
                                              call.target_node_count)]
               ELSE /\ UNCHANGED disk_registry
                    /\ call' = Returned(installed, "save failed")
    /\ UNCHANGED <<staged, launchpad_vars, archive_vars>>

\* after the loop: the staged binary is removed and the result returned
AddFinish ==
    /\ call.pc = "finish"
    /\ \E remove_ok \in BOOLEAN :
        LET removed == [call EXCEPT !.calls =
                           Append(@, FsCall("remove_file", <<>>, remove_ok))]
        IN  IF remove_ok
            THEN /\ staged' = FALSE
                 /\ call' = Returned(removed,
                        IF call.failed_service_data # <<>>
                        THEN "Failed to add one or more services" ELSE "Ok")
            ELSE /\ UNCHANGED staged
                 /\ call' = Returned(removed, "remove_file failed")
    /\ UNCHANGED <<node_registry, disk_registry, service_manager, launchpad_vars, archive_vars>>

(***************************************************************************)
(* add_daemon and add_faucet.                                              *)
(***************************************************************************)
DaemonExistsError == "A safenodemand service has already been created"
FaucetExistsError == "A faucet service has already been created"
\* DaemonServiceData and FaucetServiceData, as written on a successful install
DaemonServiceData == [service_name |-> "safenodemand", status |-> "Added"]
FaucetServiceData == [service_name |-> "faucet", status |-> "Added"]
\* a call of add_daemon or add_faucet that returned `result` after `calls`
ServiceCall(fn, calls, result) ==
    [IdleCall EXCEPT !.fn = fn, !.pc = "done", !.calls = calls, !.result = result]

\* a variant of add_daemon that does not look for a daemon in the registry
add_daemon_unguarded ==
    /\ call.pc \in {"idle", "done"}
    /\ \E install_ok \in BOOLEAN :
        LET name == <<"safenodemand", 0>>
            copied == <<FsCall("copy", name, TRUE), FsCall("install", name, install_ok)>>
        IN  IF ~install_ok
            THEN /\ call' = ServiceCall("add_daemon", copied, "install failed")
                 /\ UNCHANGED <<node_registry, disk_registry, service_manager>>
            ELSE /\ node_registry' = [node_registry EXCEPT
                                         !.daemon = Some(DaemonServiceData)]
                 /\ disk_registry' = node_registry'
                 /\ service_manager' = Append(service_manager, [name |-> name])
                 /\ call' = ServiceCall("add_daemon",
                        copied \o <<SaveCall(TRUE), FsCall("remove_file", name, TRUE)>>,
                        "Ok")
    /\ UNCHANGED <<staged, launchpad_vars, archive_vars>>

\* add_daemon: the check, std::fs::copy, the install, and on success the
\* record, the save and the removal of the downloaded binary
add_daemon ==
    /\ call.pc \in {"idle", "done"}
    /\ LET name == <<"safenodemand", 0>>
           copy(ok) == FsCall("copy", name, ok)
           install(ok) == FsCall("install", name, ok)
           remove(ok) == FsCall("remove_file", name, ok)
       IN  IF IsSome(node_registry.daemon)
           THEN /\ call' = ServiceCall("add_daemon", <<>>, DaemonExistsError)
                /\ UNCHANGED <<node_registry, disk_registry, service_manager>>
           ELSE \/ /\ call' = ServiceCall("add_daemon", <<copy(FALSE)>>, "copy failed")
                   /\ UNCHANGED <<node_registry, disk_registry, service_manager>>
                \/ /\ call' = ServiceCall("add_daemon", <<copy(TRUE), install(FALSE)>>,
                                          "install failed")
                   /\ UNCHANGED <<node_registry, disk_registry, service_manager>>
                \/ /\ node_registry' = [node_registry EXCEPT
                                           !.daemon = Some(DaemonServiceData)]
                   /\ service_manager' = Append(service_manager, [name |-> name])
                   /\ \/ /\ UNCHANGED disk_registry
                         /\ call' = ServiceCall("add_daemon",
                               <<copy(TRUE), install(TRUE), SaveCall(FALSE)>>,
                               "save failed")
                      \/ /\ disk_registry' = node_registry'
                         /\ \E remove_ok \in BOOLEAN :
                               call' = ServiceCall("add_daemon",
                                   <<copy(TRUE), install(TRUE), SaveCall(TRUE),
                                     remove(remove_ok)>>,
                                   IF remove_ok THEN "Ok" ELSE "remove_file failed")
    /\ UNCHANGED <<staged, launchpad_vars, archive_vars>>

\* a variant of add_faucet that does not look for a faucet in the registry
add_faucet_unguarded ==
    /\ call.pc \in {"idle", "done"}
    /\ \E install_ok \in BOOLEAN :
        LET name == <<"faucet", 0>>
            copied == <<FsCall("create_owned_dir(log)", name, TRUE),
                        FsCall("copy", name, TRUE),
                        FsCall("install", name, install_ok)>>
        IN  IF ~install_ok
            THEN /\ call' = ServiceCall("add_faucet", copied, "install failed")
                 /\ UNCHANGED <<node_registry, disk_registry, service_manager>>
            ELSE /\ node_registry' = [node_registry EXCEPT
                                         !.faucet = Some(FaucetServiceData)]
                 /\ disk_registry' = node_registry'
                 /\ service_manager' = Append(service_manager, [name |-> name])
                 /\ call' = ServiceCall("add_faucet",
                        copied \o <<FsCall("remove_file", name, TRUE), SaveCall(TRUE)>>,
                        "Ok")
    /\ UNCHANGED <<staged, launchpad_vars, archive_vars>>

\* add_faucet: the check, create_owned_dir of the log directory, std::fs::copy,
\* the install, and on success the record, the removal of the downloaded
\* binary and the save
add_faucet ==
    /\ call.pc \in {"idle", "done"}
    /\ LET name == <<"faucet", 0>>
           mkdir(ok) == FsCall("create_owned_dir(log)", name, ok)
           copy(ok) == FsCall("copy", name, ok)
           install(ok) == FsCall("install", name, ok)
           remove(ok) == FsCall("remove_file", name, ok)
       IN  IF IsSome(node_registry.faucet)
           THEN /\ call' = ServiceCall("add_faucet", <<>>, FaucetExistsError)
                /\ UNCHANGED <<node_registry, disk_registry, service_manager>>
           ELSE \/ /\ call' = ServiceCall("add_faucet", <<mkdir(FALSE)>>,
                                          "create_owned_dir failed")
                   /\ UNCHANGED <<node_registry, disk_registry, service_manager>>
                \/ /\ call' = ServiceCall("add_faucet", <<mkdir(TRUE), copy(FALSE)>>,
                                          "copy failed")
                   /\ UNCHANGED <<node_registry, disk_registry, service_manager>>
                \/ /\ call' = ServiceCall("add_faucet",
                              <<mkdir(TRUE), copy(TRUE), install(FALSE)>>,
                              "install failed")
                   /\ UNCHANGED <<node_registry, disk_registry, service_manager>>
                \/ /\ node_registry' = [node_registry EXCEPT
                                           !.faucet = Some(FaucetServiceData)]
                   /\ service_manager' = Append(service_manager, [name |-> name])
                   /\ \/ /\ UNCHANGED disk_registry
                         /\ call' = ServiceCall("add_faucet",
                               <<mkdir(TRUE), copy(TRUE), install(TRUE), remove(FALSE)>>,
                               "remove_file failed")
                      \/ /\ \E save_ok \in BOOLEAN :
                               /\ call' = ServiceCall("add_faucet",
                                     <<mkdir(TRUE), copy(TRUE), install(TRUE),
                                       remove(TRUE), SaveCall(save_ok)>>,
                                     IF save_ok THEN "Ok" ELSE "save failed")
                               /\ IF save_ok THEN disk_registry' = node_registry'
                                  ELSE UNCHANGED disk_registry
    /\ UNCHANGED <<staged, launchpad_vars, archive_vars>>

(***************************************************************************)
(* The archive client: PrivateArchive and Client::archive_put/archive_get. *)
(***************************************************************************)
\* Result<T, E>
Ok(v) == [ok |-> TRUE, value |-> v]
Err(e) == [ok |-> FALSE, value |-> e]

\* inputs of the archive operations
Paths == {"a.txt", "b.txt"}
DataAccesses == {"d1", "d2"}
Times == {1, 2}
Sizes == {10}

\* Metadata, and Metadata::new_with_size at the time `now`
Metadata(uploaded, created, modified, size) ==
    [uploaded |-> uploaded, created |-> created, modified |-> modified, size |-> size]
new_with_size(size, now) == Metadata(now, now, now, size)

\* HashMap<PathBuf, (PrivateDataAccess, Metadata)>: new, insert and remove
HashMapNew == [p \in {} |-> <<>>]
HashMapInsert(map, k, v) == [p \in DOMAIN map \cup {k} |-> IF p = k THEN v ELSE map[p]]
HashMapRemove(map, k) == [p \in DOMAIN map \ {k} |-> map[p]]

\* PrivateArchive::new
PrivateArchiveNew == [map |-> HashMapNew]

RenameError_FileNotFound(path) == <<"File not found in archive", path>>

\* a variant of rename_file that drops the entry at new_path before it looks
\* for old_path
rename_file_eager(a, old_path, new_path, now) ==
    IF old_path \notin DOMAIN a.map
    THEN [archive |-> [map |-> HashMapRemove(a.map, new_path)],
          result |-> Err(RenameError_FileNotFound(old_path))]
    ELSE LET entry == a.map[old_path]
             meta == [entry[2] EXCEPT !.modified = now]
         IN  [archive |-> [map |-> HashMapInsert(HashMapRemove(a.map, old_path),
                                                 new_path, <<entry[1], meta>>)],
              result |-> Ok("()")]

\* a variant of rename_file that leaves the entry at old_path in place
rename_file_copying(a, old_path, new_path, now) ==
    IF old_path \notin DOMAIN a.map
    THEN [archive |-> a, result |-> Err(RenameError_FileNotFound(old_path))]
    ELSE LET entry == a.map[old_path]
             meta == [entry[2] EXCEPT !.modified = now]
         IN  [archive |-> [map |-> HashMapInsert(a.map, new_path, <<entry[1], meta>>)],
              result |-> Ok("()")]

\* PrivateArchive::rename_file: the archive it leaves and what it returns
rename_file(a, old_path, new_path, now) ==
    IF old_path \notin DOMAIN a.map
    THEN [archive |-> a, result |-> Err(RenameError_FileNotFound(old_path))]
    ELSE LET entry == a.map[old_path]
             meta == [entry[2] EXCEPT !.modified = now]
         IN  [archive |-> [map |-> HashMapInsert(HashMapRemove(a.map, old_path),
                                                 new_path, <<entry[1], meta>>)],
              result |-> Ok("()")]

\* PrivateArchive::add_file
add_file(a, path, data_map, meta) ==
    [map |-> HashMapInsert(a.map, path, <<data_map, meta>>)]

\* rmp_serde::to_vec: the MessagePack items of a PrivateArchive.  The struct is
\* an array of its one field, the map is a map header followed by its entries
\* in the order the HashMap iterates them, an entry is the path as a string
\* and the pair as an array of the data access and of the Metadata, itself an
\* array of its four fields.
ArrayHeader(n) == <<"array", n>>
MapHeader(n) == <<"map", n>>
EncodeMetadata(meta) ==
    <<ArrayHeader(4), <<"uint", meta.uploaded>>, <<"uint", meta.created>>,
      <<"uint", meta.modified>>, <<"uint", meta.size>>>>
EncodeEntry(path, entry) ==
    <<<<"str", path>>, ArrayHeader(2), <<"bin", entry[1]>>>> \o EncodeMetadata(entry[2])
EntryLen == 8
RECURSIVE EncodeEntries(_, _)
EncodeEntries(map, order) ==
    IF order = <<>> THEN <<>>
    ELSE EncodeEntry(Head(order), map[Head(order)]) \o EncodeEntries(map, Tail(order))

\* the orders in which a HashMap may iterate its keys
IterationOrders(map) ==
    {order \in [1..Cardinality(DOMAIN map) -> DOMAIN map] :
        \A i, j \in 1..Cardinality(DOMAIN map) : order[i] = order[j] => i = j}

\* PrivateArchive::into_bytes, for one iteration order of the map
into_bytes(a, order) ==
    Ok(<<ArrayHeader(1), MapHeader(Len(order))>> \o EncodeEntries(a.map, order))

\* a variant of the decoder of Metadata that takes created and modified in the
\* other order
DecodeMetadata_swapped(data, i) ==
    Metadata(data[i + 1][2], data[i + 3][2], data[i + 2][2], data[i + 4][2])

\* rmp_serde::from_slice: the Metadata whose array header is the item i
DecodeMetadata(data, i) ==
    Metadata(data[i + 1][2], data[i + 2][2], data[i + 3][2], data[i + 4][2])

\* the items from i on are the entry of a map: a string, an array of two, a
\* data access and an array of four unsigned integers
IsEntry(data, i) ==
    /\ data[i][1] = "str"
    /\ data[i + 1] = ArrayHeader(2)
    /\ data[i + 2][1] = "bin"
    /\ data[i + 3] = ArrayHeader(4)
    /\ \A k \in 4..7 : data[i + k][1] = "uint"

RECURSIVE DecodeEntries(_, _, _)
DecodeEntries(data, i, map) ==
    IF i > Len(data) THEN map
    ELSE DecodeEntries(data, i + EntryLen,
                       HashMapInsert(map, data[i][2],
                                     <<data[i + 2][2], DecodeMetadata(data, i + 3)>>))

\* PrivateArchive::from_bytes
from_bytes(data) ==
    IF /\ Len(data) >= 2
       /\ data[1] = ArrayHeader(1)
       /\ data[2][1] = "map"
       /\ Len(data) = 2 + EntryLen * data[2][2]
       /\ \A n \in 0..(data[2][2] - 1) : IsEntry(data, 3 + EntryLen * n)
    THEN Ok([map |-> DecodeEntries(data, 3, HashMapNew)])
    ELSE Err("rmp_serde::decode::Error")

\* Client::data_put and Client::data_get: the data is stored under an access
\* derived from its content, and fetched with that access
DataAccessOf(bytes) == <<"access", bytes>>
data_get(net, addr) ==
    IF addr[2] \in net THEN Ok(addr[2]) ELSE Err("GetError")

\* data uploaded by data_put that is not an archive
FileData == <<<<"bin", "file">>>>

\* the operation the client performed last
ArchiveOp(fn, args, result) == [fn |-> fn, args |-> args, result |-> result]
NoArchiveOp == ArchiveOp("-", <<>>, <<>>)

\* a call of add_file, resp. rename_file, with paths of PathSet
AddFileIn(PathSet) ==
    /\ \E path \in PathSet, data_map \in DataAccesses, size \in Sizes, now \in Times :
          /\ archive' = add_file(archive, path, data_map, new_with_size(size, now))
          /\ archive_op' = ArchiveOp("add_file", <<path>>, Ok("()"))
    /\ UNCHANGED <<network, put_log, launchpad_vars, add_vars>>

RenameFileIn(PathSet) ==
    /\ \E old_path \in PathSet, new_path \in PathSet, now \in Times :
          LET r == rename_file(archive, old_path, new_path, now)
          IN  /\ archive' = r.archive
              /\ archive_op' = ArchiveOp("rename_file", <<old_path, new_path>>, r.result)
    /\ UNCHANGED <<network, put_log, launchpad_vars, add_vars>>

ArchiveAddFile == AddFileIn(Paths)
ArchiveRenameFile == RenameFileIn(Paths)

\* Client::archive_put: into_bytes, then data_put, which may fail
ArchivePut ==
    /\ \E order \in IterationOrders(archive.map) :
          LET bytes == into_bytes(archive, order).value
              addr == DataAccessOf(bytes)
          IN  \/ /\ Cardinality(put_log \cup {<<addr, archive>>}) <= MaxStored
                 /\ network' = network \cup {bytes}
                 /\ put_log' = put_log \cup {<<addr, archive>>}
                 /\ archive_op' = ArchiveOp("archive_put", <<archive>>, Ok(addr))
              \/ /\ archive_op' = ArchiveOp("archive_put", <<archive>>, Err("PutError"))
                 /\ UNCHANGED <<network, put_log>>
    /\ UNCHANGED <<archive, launchpad_vars, add_vars>>

\* Client::archive_get: data_get, which may fail, then from_bytes
ArchiveGet ==
    /\ \E addr \in {DataAccessOf(bytes) : bytes \in network} :
          \/ LET data == data_get(network, addr)
             IN  archive_op' = ArchiveOp("archive_get", <<addr>>,
                                  IF data.ok THEN from_bytes(data.value) ELSE data)
          \/ archive_op' = ArchiveOp("archive_get", <<addr>>, Err("GetError"))
    /\ UNCHANGED <<archive, network, put_log, launchpad_vars, add_vars>>

\* before the archive client does anything
InitArchive ==
    /\ archive = PrivateArchiveNew
    /\ network = {FileData}
    /\ put_log = {}
    /\ archive_op = NoArchiveOp

(***************************************************************************)
(* The status component and its worker.                                    *)
(***************************************************************************)
EmptyRegistry == [nodes |-> <<>>, nat_status |-> FALSE]
InitRegistries ==
    { EmptyRegistry,
      [nodes |-> <<NodeRecord(1, "Removed", PeerIdOf(1))>>, nat_status |-> FALSE],
      [nodes |-> <<NodeRecord(1, "Added", NoPeerId)>>, nat_status |-> FALSE] }

\* Status::new.  The connection mode of the configuration is CustomPorts: the
\* NAT probe is not asked for.
InitLaunchpad ==
    /\ lock_registry = None
    /\ action_sender = FALSE
    /\ registry \in InitRegistries
    /\ node_services = ActiveNodes(registry)
    /\ is_nat_status_determined = registry.nat_status
    /\ error_while_running_nat_detection = 0
    /\ nodes_to_start \in 0..MaxNodes
    /\ rewards_address \in RewardsAddresses
    /\ connection_mode = "CustomPorts"
    /\ port_from = NoneOpt
    /\ port_to = NoneOpt
    /\ items = NoneOpt
    /\ table_state = StatefulTable_with_items
    /\ nat_detected = FALSE
    /\ action_rx = <<>>
    /\ task_queue = <<>>
    /\ handled = "-"

\* before the first add call: an empty registry, in memory and on disk
InitAdd ==
    /\ InitArchive
    /\ node_registry = EmptyNodeRegistry
    /\ disk_registry = EmptyNodeRegistry
    /\ staged = FALSE
    /\ call = IdleCall
    /\ service_manager = <<>>

Init == InitLaunchpad /\ InitAdd

\* a key press or a pop-up of the presentation layer, handled by Status::update
CanSend == Len(task_queue) < MaxQueue
CanReturn == Len(action_rx) < MaxChan

UserStoreNodesToStart ==
    /\ CanReturn
    /\ \E count \in 0..MaxNodes : StoreNodesToStart(count, action_rx)
    /\ UNCHANGED <<add_vars, archive_vars>>
UserStoreRewardsAddress ==
    /\ CanSend
    /\ \E addr \in RewardsAddresses : StoreRewardsAddress(addr, action_rx)
    /\ UNCHANGED <<add_vars, archive_vars>>
UserStoreStorageDrive ==
    /\ CanSend
    /\ StoreStorageDrive(action_rx)
    /\ UNCHANGED <<add_vars, archive_vars>>
UserStoreConnectionMode ==
    /\ CanSend
    /\ \E mode \in ConnectionModes : StoreConnectionMode(mode, action_rx)
    /\ UNCHANGED <<add_vars, archive_vars>>
UserStorePortRange ==
    /\ CanSend
    /\ \E r \in PortRangeInputs : StorePortRange(r[1], r[2], action_rx)
    /\ UNCHANGED <<add_vars, archive_vars>>
UserStartNodes ==
    /\ CanSend
    /\ CanReturn
    /\ StartNodes(action_rx)
    /\ UNCHANGED <<add_vars, archive_vars>>
UserStopNodes ==
    /\ CanSend
    /\ StopNodes(action_rx)
    /\ UNCHANGED <<add_vars, archive_vars>>
UserUpdateNodes ==
    /\ CanSend
    /\ UpdateNodes(action_rx)
    /\ UNCHANGED <<add_vars, archive_vars>>
UserResetNodes ==
    /\ CanSend
    /\ ResetNodes(action_rx)
    /\ UNCHANGED <<add_vars, archive_vars>>
\* the application's tick
AppTick ==
    /\ Tick(action_rx)
    /\ UNCHANGED <<add_vars, archive_vars>>

\* the application takes the next action out of its channel and hands it to
\* Status::update
Received(types) == action_rx # <<>> /\ Head(action_rx).type \in types
Rest == Tail(action_rx)
RecvStartNodes ==
    /\ Received({"StartNodes"})
    /\ CanSend
    /\ StartNodes(Rest)
    /\ UNCHANGED <<add_vars, archive_vars>>
RecvStopNodes ==
    /\ Received({"StopNodes"})
    /\ CanSend
    /\ StopNodes(Rest)
    /\ UNCHANGED <<add_vars, archive_vars>>
RecvTrigger ==
    /\ Received({"TriggerRewardsAddress", "TriggerManageNodes"})
    /\ TriggerAction(Head(action_rx).type, Rest)
    /\ UNCHANGED <<add_vars, archive_vars>>
RecvStartStopNodesCompleted ==
    /\ Received({"StartNodesCompleted", "StopNodesCompleted"})
    /\ StartStopNodesCompleted(Head(action_rx).type, Rest)
    /\ UNCHANGED <<add_vars, archive_vars>>
RecvUpdateNodesCompleted ==
    /\ Received({"UpdateNodesCompleted"})
    /\ UpdateNodesCompleted(Rest)
    /\ UNCHANGED <<add_vars, archive_vars>>
RecvResetNodesCompleted ==
    /\ Received({"ResetNodesCompleted"})
    /\ ResetNodesCompleted(Head(action_rx).trigger_start_node, Rest)
    /\ UNCHANGED <<add_vars, archive_vars>>
RecvSuccessfullyDetectedNatStatus ==
    /\ Received({"SuccessfullyDetectedNatStatus"})
    /\ SuccessfullyDetectedNatStatus(Rest)
    /\ UNCHANGED <<add_vars, archive_vars>>
RecvErrorWhileRunningNatDetection ==
    /\ Received({"ErrorWhileRunningNatDetection"})
    /\ ErrorWhileRunningNatDetection(Rest)
    /\ UNCHANGED <<add_vars, archive_vars>>
RecvErrorEvent ==
    /\ Received(ErrorEvents)
    /\ ErrorEvent(Head(action_rx).type, Rest)
    /\ UNCHANGED <<add_vars, archive_vars>>

\* The lock and dispatch discipline: the presentation layer's actions other
\* than the connection-mode and port-range pop-ups, and the worker.
Next ==
    \/ register_action_handler
    \/ UserStoreNodesToStart
    \/ UserStoreRewardsAddress
    \/ UserStoreStorageDrive
    \/ UserStartNodes
    \/ UserStopNodes
    \/ UserUpdateNodes
    \/ UserResetNodes
    \/ RecvStartNodes
    \/ RecvStopNodes
    \/ RecvTrigger
    \/ RecvStartStopNodesCompleted
    \/ RecvUpdateNodesCompleted
    \/ RecvResetNodesCompleted
    \/ RecvErrorEvent
    \/ WorkerComplete
    \/ WorkerFail

Spec == Init /\ [][Next]_vars

(***************************************************************************)
(* A sequence of add calls on one registry, starting from the empty one.   *)
(***************************************************************************)
InitAddCalls ==
    /\ InitAdd
    /\ InitLaunchpad
    /\ registry = EmptyRegistry
    /\ nodes_to_start = 0
    /\ rewards_address = ""

NextAdd ==
    \/ AddBegin
    \/ AddNodeAborted
    \/ AddNodeInstallFailed
    \/ AddNodeInstalled
    \/ AddFinish

SpecAdd == InitAddCalls /\ [][NextAdd]_vars

(***************************************************************************)
(* A sequence of add calls that supply bootstrap peers and environment     *)
(* variables, each adding one node.                                        *)
(***************************************************************************)
AddBeginWithPeers == AddCalled(PeerOptions)

NextPeers ==
    \/ AddBeginWithPeers
    \/ AddNodeAborted
    \/ AddNodeInstallFailed
    \/ AddNodeInstalled
    \/ AddFinish

SpecPeers == InitAddCalls /\ [][NextPeers]_vars

(***************************************************************************)
(* add, add_daemon and add_faucet called on one registry, the add calls    *)
(* being those the preconditions tell apart.                               *)
(***************************************************************************)
\* the options of add calls with a genesis flag or a custom node port
GuardedOptions ==
    {[NoOptions EXCEPT !.count = c, !.genesis = TRUE] : c \in CountInputs}
    \cup {[NoOptions EXCEPT !.count = c, !.node_port = Some(12000)] :
        c \in CountInputs}
    \cup {[NoOptions EXCEPT !.count = Some(MaxCount), !.genesis = TRUE,
                            !.node_port = Some(12000)]}
    \cup {[NoOptions EXCEPT !.bootstrap_peers = <<"/ip4/1">>,
                            !.env_variables = Some(<<"SN_LOG", "all">>),
                            !.genesis = TRUE]}

AddBeginGuarded == AddCalled(GuardedOptions)

NextServices ==
    \/ AddBeginGuarded
    \/ AddNodeAborted
    \/ AddNodeInstallFailed
    \/ AddNodeInstalled
    \/ AddFinish
    \/ add_daemon
    \/ add_faucet

SpecServices == InitAddCalls /\ [][NextServices]_vars

(***************************************************************************)
(* add_daemon and add_faucet called on a registry that may already hold a  *)
(* daemon or a faucet record, in any status.                               *)
(***************************************************************************)
ServiceStatuses == {"Added", "Running", "Stopped", "Removed"}
ExistingDaemons == {NoneOpt} \cup {Some([DaemonServiceData EXCEPT !.status = s]) :
                                      s \in ServiceStatuses}
ExistingFaucets == {NoneOpt} \cup {Some([FaucetServiceData EXCEPT !.status = s]) :
                                      s \in ServiceStatuses}

\* the registry the caller passes, as loaded from the file, and the services
\* that were installed when its records were written
InitSingletons ==
    /\ InitArchive
    /\ InitLaunchpad
    /\ registry = EmptyRegistry
    /\ nodes_to_start = 0
    /\ rewards_address = ""
    /\ \E d \in ExistingDaemons, f \in ExistingFaucets :
          /\ node_registry = [EmptyNodeRegistry EXCEPT !.daemon = d, !.faucet = f]
          /\ service_manager =
                (IF IsSome(d) THEN <<[name |-> <<"safenodemand", 0>>]>> ELSE <<>>)
                \o (IF IsSome(f) THEN <<[name |-> <<"faucet", 0>>]>> ELSE <<>>)
    /\ disk_registry = node_registry
    /\ staged = FALSE
    /\ call = IdleCall

NextSingletons ==
    \/ add_daemon
    \/ add_faucet

SpecSingletons == InitSingletons /\ [][NextSingletons]_vars

(***************************************************************************)
(* NAT detection: the configuration asks for the Automatic connection      *)
(* mode, a rewards address and a node count are stored, and the user       *)
(* starts and resets the nodes and changes the connection mode.            *)
(***************************************************************************)
InitNat ==
    /\ InitAdd
    /\ lock_registry = None
    /\ action_sender = FALSE
    /\ registry \in {EmptyRegistry, [EmptyRegistry EXCEPT !.nat_status = TRUE]}
    /\ node_services = ActiveNodes(registry)
    /\ is_nat_status_determined = registry.nat_status
    /\ error_while_running_nat_detection = 0
    /\ nodes_to_start = MaxNodes
    /\ rewards_address = "0xA"
    /\ connection_mode = "Automatic"
    /\ port_from = NoneOpt
    /\ port_to = NoneOpt
    /\ items = NoneOpt
    /\ table_state = StatefulTable_with_items
    /\ nat_detected = FALSE
    /\ action_rx = <<>>
    /\ task_queue = <<>>
    /\ handled = "-"

NextNat ==
    \/ register_action_handler
    \/ UserStoreConnectionMode
    \/ UserStartNodes
    \/ UserResetNodes
    \/ RecvStartStopNodesCompleted
    \/ RecvResetNodesCompleted
    \/ RecvSuccessfullyDetectedNatStatus
    \/ RecvErrorWhileRunningNatDetection
    \/ RecvErrorEvent
    \/ WorkerNatDetection
    \/ WorkerComplete
    \/ WorkerFail

SpecNat == InitNat /\ [][NextNat]_vars

(***************************************************************************)
(* Resets: the user resets the nodes, the worker reports the reset with    *)
(* either value of trigger_start_node, and the only StartNodes actions are *)
(* those the ResetNodesCompleted handler returns.                          *)
(***************************************************************************)
InitReset ==
    /\ InitAdd
    /\ InitLaunchpad
    /\ registry \in InitRegistries \cup
          {[nodes |-> <<NodeRecord(1, "Running", PeerIdOf(1))>>, nat_status |-> FALSE]}

NextReset ==
    \/ register_action_handler
    \/ AppTick
    \/ UserResetNodes
    \/ RecvResetNodesCompleted
    \/ RecvStartNodes
    \/ RecvTrigger
    \/ RecvStartStopNodesCompleted
    \/ WorkerResetCompleted
    \/ WorkerComplete

SpecReset == InitReset /\ [][NextReset]_vars

(***************************************************************************)
(* Upgrades: the registry holds a fleet of nodes in every status, with and *)
(* without a peer id, and the user updates and stops the nodes.            *)
(***************************************************************************)
\* a node record of the fleet: Running or Stopped with the peer id it got when
\* it was started, Added and never started, or Removed
FleetRecords(number) ==
    {NodeRecord(number, "Running", PeerIdOf(number)),
     NodeRecord(number, "Stopped", PeerIdOf(number)),
     NodeRecord(number, "Added", NoPeerId),
     NodeRecord(number, "Removed", PeerIdOf(number)),
     NodeRecord(number, "Removed", NoPeerId)}
Fleets ==
    {nodes \in [1..MaxFleet -> UNION {FleetRecords(i) : i \in 1..MaxFleet}] :
        \A i \in 1..MaxFleet : nodes[i].number = i}

InitUpgrade ==
    /\ InitAdd
    /\ lock_registry = None
    /\ action_sender = FALSE
    /\ \E nodes \in Fleets : registry = [nodes |-> nodes, nat_status |-> FALSE]
    /\ node_services = ActiveNodes(registry)
    /\ is_nat_status_determined = registry.nat_status
    /\ error_while_running_nat_detection = 0
    /\ nodes_to_start = 0
    /\ rewards_address = ""
    /\ connection_mode = "CustomPorts"
    /\ port_from = NoneOpt
    /\ port_to = NoneOpt
    /\ items = NoneOpt
    /\ table_state = StatefulTable_with_items
    /\ nat_detected = FALSE
    /\ action_rx = <<>>
    /\ task_queue = <<>>
    /\ handled = "-"

NextUpgrade ==
    \/ register_action_handler
    \/ UserUpdateNodes
    \/ UserStopNodes
    \/ RecvUpdateNodesCompleted
    \/ RecvStartStopNodesCompleted
    \/ RecvErrorEvent
    \/ WorkerComplete
    \/ WorkerFail

SpecUpgrade == InitUpgrade /\ [][NextUpgrade]_vars

(***************************************************************************)
(* Port ranges: a rewards address and a node count are stored, the user    *)
(* stores port ranges and starts the nodes.                                *)
(***************************************************************************)
InitPorts ==
    /\ InitAdd
    /\ InitLaunchpad
    /\ nodes_to_start = MaxNodes
    /\ rewards_address = "0xA"

NextPorts ==
    \/ register_action_handler
    \/ UserStorePortRange
    \/ UserStartNodes
    \/ RecvResetNodesCompleted
    \/ RecvStartStopNodesCompleted
    \/ WorkerComplete

SpecPorts == InitPorts /\ [][NextPorts]_vars

(***************************************************************************)
(* The archive client: files are added to a local archive and renamed, the *)
(* archive is uploaded and archives are fetched.                           *)
(***************************************************************************)
InitArchiveClient ==
    /\ InitAdd
    /\ InitLaunchpad
    /\ registry = EmptyRegistry
    /\ nodes_to_start = 0
    /\ rewards_address = ""

NextArchive ==
    \/ ArchiveAddFile
    \/ ArchiveRenameFile
    \/ ArchivePut
    \/ ArchiveGet

SpecArchive == InitArchiveClient /\ [][NextArchive]_vars

(***************************************************************************)
(* Node counts: the node count is a usize, stored by Status::new from the   *)
(* configuration and by StoreNodesToStart, and cast to u16 for the task.    *)
(***************************************************************************)
NodeCountInputs == {0, 1, 65536, 65537}

UserStoreNodeCount ==
    /\ CanReturn
    /\ \E count \in NodeCountInputs : StoreNodesToStart(count, action_rx)
    /\ UNCHANGED <<add_vars, archive_vars>>

InitCount ==
    /\ InitAdd
    /\ lock_registry = None
    /\ action_sender = FALSE
    /\ registry \in InitRegistries
    /\ node_services = ActiveNodes(registry)
    /\ is_nat_status_determined = registry.nat_status
    /\ error_while_running_nat_detection = 0
    /\ nodes_to_start \in NodeCountInputs
    /\ rewards_address \in RewardsAddresses
    /\ connection_mode = "CustomPorts"
    /\ port_from = NoneOpt
    /\ port_to = NoneOpt
    /\ items = NoneOpt
    /\ table_state = StatefulTable_with_items
    /\ nat_detected = FALSE
    /\ action_rx = <<>>
    /\ task_queue = <<>>
    /\ handled = "-"

NextCount ==
    \/ register_action_handler
    \/ UserStoreNodeCount
    \/ UserStartNodes
    \/ RecvStartNodes
    \/ RecvStopNodes
    \/ RecvTrigger
    \/ RecvStartStopNodesCompleted
    \/ WorkerComplete

SpecCount == InitCount /\ [][NextCount]_vars

(***************************************************************************)
(* Renames in an archive of up to three files.                             *)
(***************************************************************************)
ManyPaths == Paths \cup {"c.txt"}

AddFileOfMany == AddFileIn(ManyPaths)
RenameFileOfMany == RenameFileIn(ManyPaths)

NextRename ==
    \/ AddFileOfMany
    \/ RenameFileOfMany

SpecRename == InitArchiveClient /\ [][NextRename]_vars

(***************************************************************************)
(* The node table: ticks build the table and insert rows, resets clear it, *)
(* nodes are started again, and the user moves the selection up and down.  *)
(* A panic ends the session.                                               *)
(***************************************************************************)
Alive == handled # "panic"
\* the selection the user may move: at most MaxSelected away from 0
CanMove ==
    IsSome(table_state.selected) =>
        Unwrap(table_state.selected) \in (1 - MaxSelected)..(MaxSelected - 1)

UserNextTableItem ==
    /\ Alive
    /\ CanMove
    /\ NextTableItem(action_rx)
    /\ UNCHANGED <<add_vars, archive_vars>>
UserPreviousTableItem ==
    /\ Alive
    /\ CanMove
    /\ PreviousTableItem(action_rx)
    /\ UNCHANGED <<add_vars, archive_vars>>
TableRegistered == Alive /\ register_action_handler
TableTick == Alive /\ AppTick
TableResetNodes == Alive /\ UserResetNodes
TableResetCompleted == Alive /\ WorkerResetCompleted
TableRecvResetNodesCompleted == Alive /\ RecvResetNodesCompleted
TableRecvStartNodes == Alive /\ RecvStartNodes
TableWorkerComplete == Alive /\ WorkerComplete
TableRecvStartStopNodesCompleted == Alive /\ RecvStartStopNodesCompleted

InitTable ==
    /\ InitAdd
    /\ InitLaunchpad
    /\ nodes_to_start = MaxNodes
    /\ rewards_address = "0xA"

NextTable ==
    \/ TableRegistered
    \/ TableTick
    \/ UserNextTableItem
    \/ UserPreviousTableItem
    \/ TableResetNodes
    \/ TableResetCompleted
    \/ TableRecvResetNodesCompleted
    \/ TableRecvStartNodes
    \/ TableWorkerComplete
    \/ TableRecvStartStopNodesCompleted

SpecTable == InitTable /\ [][NextTable]_vars

(***************************************************************************)
(* Properties of the lock discipline.                                      *)
(***************************************************************************)
\* C1: at most one registry-mutating task is outstanding at a time: no task
\* is sent to the worker while an earlier task has not yet completed.
C1_AtMostOneTaskOutstanding == Len(task_queue) <= 1

\* C2: when Status::update has handled the completion event or the error
\* event that ends a task, lock_registry is None.
C2_LockReleasedWhenTaskEnds ==
    handled \in CompletionEvents \cup ErrorEvents => lock_registry = None

\* C3: while lock_registry is not None, a StartNodes, StopNodes, UpdateNodes
\* or ResetNodes action sends no task and leaves the lock value unchanged.
C3_RejectedWhileLocked ==
    [][ (lock_registry # None
         /\ handled' \in {"StartNodes", "StopNodes", "UpdateNodes", "ResetNodes"})
        => (task_queue' = task_queue /\ lock_registry' = lock_registry) ]_vars

\* a StopNodes action was handled while another task held the lock
C3_Witness ==
    /\ handled = "StopNodes"
    /\ lock_registry \in {"StartingNodes", "ResettingNodes", "UpdatingNodes"}
    /\ task_queue # <<>>

\* C4: in every state in which a task has been sent and has not yet reported
\* its completion or error event, lock_registry is not None.
C4_LockHeldWhileTaskRuns == task_queue # <<>> => lock_registry # None

(***************************************************************************)
(* Properties of add.                                                      *)
(***************************************************************************)
Nodes == node_registry.nodes
\* the count the call asked for (1 when count is not given), the number of node
\* records when it was called, and the names it added and failed to add
K == UnwrapOr(call.options.count, 1)
M == call.current_node_count
Added == call.added_service_data
Failed == call.failed_service_data
\* the ports the controller returned in this call, in order
PortsReturned ==
    SelectSeq(call.calls, LAMBDA c : c.op = "get_available_port" /\ c.ok)
AggregateError == "Failed to add one or more services"

\* C5: no two node records share a number, and no two share a service_name.
C5_UniqueNumbersAndNames ==
    \A i, j \in 1..Len(Nodes) :
        i # j => /\ Nodes[i].number # Nodes[j].number
                 /\ Nodes[i].service_name # Nodes[j].service_name

\* C6: every node record's rpc_socket_addr is unique within the registry.
C6_UniqueRpcSocketAddr ==
    \A i, j \in 1..Len(Nodes) :
        i # j => Nodes[i].rpc_socket_addr # Nodes[j].rpc_socket_addr

\* the K installs of the call all succeeded, and then the call left M + K
\* records, the new ones numbered M+1..M+K, named prefix{number}, Added, with
\* the configured RPC address (127.0.0.1 by default) and the i-th port returned
AddedInOrder(prefix) ==
    (call.pc # "idle" /\ Len(Added) = K) =>
        /\ Len(Nodes) = M + K
        /\ \A i \in 1..K :
            /\ Nodes[M + i].number = M + i
            /\ Nodes[M + i].service_name = <<prefix, M + i>>
            /\ Nodes[M + i].status = "Added"
            /\ Nodes[M + i].rpc_socket_addr =
                   <<UnwrapOr(call.options.rpc_address, "127.0.0.1"),
                     PortsReturned[i].port>>

\* C7 as stated: from m records, add(count = k) in which every install
\* succeeds leaves m + k records; the new ones have number m+1..m+k,
\* service_name `antnode` followed by the number, status Added, and the
\* configured RPC address with the i-th port returned.
C7_AddedInOrder_antnode == AddedInOrder("antnode")

\* C7 as amended: the same, with service_name `safenode` followed by the number.
C7_AddedInOrder_safenode == AddedInOrder("safenode")

\* a call on a registry of one record added two nodes and returned Ok
C7_Witness ==
    /\ call.pc = "done"
    /\ call.result = "Ok"
    /\ M >= 1
    /\ K = 2
    /\ Len(Added) = 2
    /\ IsSome(call.options.rpc_address)

\* C8: when only k' < k of the k installs succeed, the call leaves m + k'
\* records and the k' new records have the numbers m+1..m+k' and the names of
\* those numbers, whichever installs failed.
C8_PartialSuccessIsDense ==
    (call.pc = "done" /\ Len(Added) + Len(Failed) = K /\ Len(Added) < K) =>
        /\ Len(Nodes) = M + Len(Added)
        /\ \A i \in 1..Len(Added) :
            /\ Nodes[M + i].number = M + i
            /\ Nodes[M + i].service_name = ServiceName(M + i)

\* the records of this call that a save of this call has written: all the
\* added ones, but the last when the save that followed its install failed
SavedCount ==
    IF call.result = "save failed" /\ Added # <<>> THEN Len(Added) - 1 ELSE Len(Added)

\* C9: during add, once a node is installed and the registry saved, the
\* registry file holds its record and the records added before it in the same
\* call, and they stay there when a later step of the call fails.
C9_AddedNodesArePersisted ==
    (call.pc # "idle" /\ SavedCount >= 1) =>
        /\ Len(disk_registry.nodes) >= M + SavedCount
        /\ \A i \in 1..SavedCount :
            /\ disk_registry.nodes[M + i] = Nodes[M + i]
            /\ disk_registry.nodes[M + i].service_name = Added[i]

\* a call added a node, and then failed at a later node
C9_Witness ==
    /\ call.pc = "done"
    /\ call.result \in {"get_available_port failed", "create_owned_dir failed",
                        "copy failed", "save failed"}
    /\ SavedCount >= 1
    /\ call.node_number > M + SavedCount

\* the call went through its whole loop with some install failing
LoopEndedWithFailures ==
    /\ call.pc = "done"
    /\ Failed # <<>>
    /\ call.result \in {"Ok", AggregateError, "remove_file failed"}

\* the records the call appended are those of the installs that succeeded
OnlyInstalledRegistered ==
    /\ Len(Nodes) = M + Len(Added)
    /\ \A i \in 1..Len(Added) : Nodes[M + i].service_name = Added[i]
    /\ \A i \in 1..Len(Added), j \in 1..Len(Failed) : Added[i] # Failed[j]

GenesisSingleError == "A genesis node can only be added as a single node"
GenesisExistsError == "A genesis node already exists"
CustomPortError == "Custom node port can only be used when adding a single service"
GenesisNodes(reg) == {i \in 1..Len(reg.nodes) : reg.nodes[i].genesis}

\* the step is a call of add: the call of the next state is the one it makes
AddIsCalled == call.pc \in {"idle", "done"} /\ call'.fn = "add"
\* the call of the next state returned `error` at once: the controller and the
\* file system were not called, the registry, its file and the services are
\* as they were
FailedAtOnce(error) ==
    /\ call'.pc = "done"
    /\ call'.result = error
    /\ call'.calls = <<>>
    /\ node_registry' = node_registry
    /\ disk_registry' = disk_registry
    /\ service_manager' = service_manager

\* C11: add with genesis = true fails with "A genesis node can only be added
\* as a single node" when count > 1, and with "A genesis node already exists"
\* when the registry holds a genesis node (the count is checked first); in
\* both cases the controller is not called and the registry is unchanged.
C11_GenesisGuards ==
    [][ (AddIsCalled /\ call'.options.genesis) =>
          LET many == UnwrapOr(call'.options.count, 1) > 1
              exists == GenesisNodes(node_registry) # {}
          IN  /\ many => FailedAtOnce(GenesisSingleError)
              /\ (exists /\ ~many) => FailedAtOnce(GenesisExistsError) ]_vars

\* a genesis add on a registry that holds a genesis node has returned the error
C11_Witness ==
    /\ call.pc = "done"
    /\ call.options.genesis
    /\ call.result = GenesisExistsError
    /\ GenesisNodes(node_registry) # {}

\* C12: after any sequence of add calls at most one node record has
\* genesis = true, in the registry and in its file.
C12_AtMostOneGenesis ==
    /\ Cardinality(GenesisNodes(node_registry)) <= 1
    /\ Cardinality(GenesisNodes(disk_registry)) <= 1

\* a genesis node was added to a registry that held a node, and one more node
\* after it
C12_Witness ==
    /\ Len(Nodes) = 3
    /\ GenesisNodes(node_registry) = {2}
    /\ GenesisNodes(disk_registry) = {2}

\* a call with a custom node_port that returned Ok added one service, installed
\* with that port
AddedOneWithPort ==
    (call.pc = "done" /\ call.result = "Ok" /\ IsSome(call.options.node_port)) =>
        /\ Len(Added) = 1
        /\ Len(Nodes) = M + 1
        /\ service_manager # <<>>
        /\ service_manager[Len(service_manager)].node_port = call.options.node_port
        /\ service_manager[Len(service_manager)].name = Added[1]

C14_UniqueCustomNodePort ==
    \A i, j \in 1..Len(service_manager) :
        (i # j /\ IsSome(service_manager[i].node_port))
            => service_manager[i].node_port # service_manager[j].node_port

(***************************************************************************)
(* Properties of the failures of add.                                      *)
(***************************************************************************)
\* create_owned_dir or std::fs::copy failed for a node of the call
FsFailures ==
    SelectSeq(call.calls,
              LAMBDA c : c.op \in {"create_owned_dir(data)", "create_owned_dir(log)",
                                   "copy"} /\ ~c.ok)
PreconditionErrors ==
    {GenesisSingleError, GenesisExistsError, CustomPortError,
     "Could not get filename from the safenode download path"}

\* C16: in a multi-node add, a failure to create a node's data or log
\* directory or to copy the binary fails that node only: the call goes on to
\* ask a port for each of its nodes, and returns the aggregated error with the
\* node among the failed ones.
C16_FsFailureIsPerNode ==
    (call.pc = "done" /\ K > 1 /\ FsFailures # <<>>) =>
        /\ Len(PortsReturned) = K
        /\ call.result = AggregateError
        /\ \A i \in 1..Len(FsFailures) : InSeq(FsFailures[i].name, Failed)

\* C17: every add call that passed its preconditions has removed the staged
\* binary when it returns (the case in which the removal itself fails left
\* aside).
C17_StagedBinaryRemoved ==
    (call.pc = "done" /\ call.fn = "add"
        /\ call.result \notin PreconditionErrors \cup {"remove_file failed"})
        => ~staged

(***************************************************************************)
(* Properties of the bootstrap peers and environment variables of add.     *)
(***************************************************************************)
\* the call of the next state has provisioned no node yet
NothingProvisioned ==
    \A i \in 1..Len(call'.calls) : call'.calls[i].op = "save"

\* C18: add merges the supplied bootstrap peers before it provisions a node:
\* the registry's list becomes the previous list followed by the supplied
\* peers the previous list did not hold, in supplied order; when there are
\* such peers the registry is saved with the merged list before the loop (add
\* returns the error when that save fails); the loop leaves the list alone.
C18_BootstrapPeersMerged ==
    [][ /\ (AddIsCalled /\ call'.result \notin PreconditionErrors) =>
              LET supplied == call'.options.bootstrap_peers
                  previous == node_registry.bootstrap_peers
                  new == SelectSeq(supplied,
                            LAMBDA p : \A i \in 1..Len(previous) : previous[i] # p)
              IN  /\ node_registry'.bootstrap_peers = previous \o new
                  /\ NothingProvisioned
                  /\ new # <<>> =>
                        IF call'.pc = "done" THEN call'.result = "save failed"
                        ELSE disk_registry'.bootstrap_peers = previous \o new
        /\ call.pc \in {"loop", "finish"} =>
              node_registry'.bootstrap_peers = node_registry.bootstrap_peers ]_vars

\* a call supplied a list to a registry that held one of its peers, and the
\* merged list is in the registry and in its file
C18_Witness ==
    /\ call.pc = "done"
    /\ call.result = "Ok"
    /\ call.options.bootstrap_peers = <<"/ip4/2", "/ip4/1", "/ip4/2">>
    /\ node_registry.bootstrap_peers = <<"/ip4/1", "/ip4/2", "/ip4/2">>
    /\ disk_registry.bootstrap_peers = node_registry.bootstrap_peers

\* C19: the registry's bootstrap_peers holds no multiaddress twice.
C19_NoDuplicateBootstrapPeers ==
    \A i, j \in 1..Len(node_registry.bootstrap_peers) :
        i # j => node_registry.bootstrap_peers[i] # node_registry.bootstrap_peers[j]

\* C20: add called with env_variables = Some(v) sets the registry's
\* environment_variables to Some(v) and saves it before the loop, so that it is
\* in the registry file whenever a node of the call is installed; add called
\* with env_variables = None leaves them unchanged; the loop leaves them alone.
C20_EnvironmentVariablesStored ==
    [][ /\ (AddIsCalled /\ call'.result \notin PreconditionErrors) =>
              IF IsSome(call'.options.env_variables)
              THEN /\ node_registry'.environment_variables = call'.options.env_variables
                   /\ NothingProvisioned
                   /\ IF call'.pc = "done" THEN call'.result = "save failed"
                      ELSE disk_registry'.environment_variables =
                               call'.options.env_variables
              ELSE node_registry'.environment_variables =
                       node_registry.environment_variables
        /\ call.pc \in {"loop", "finish"} =>
              /\ node_registry'.environment_variables =
                     node_registry.environment_variables
              /\ IsSome(call.options.env_variables) =>
                     disk_registry.environment_variables = call.options.env_variables ]_vars

\* a call that supplied environment variables to a registry that held other
\* ones has installed its node
C20_Witness ==
    /\ call.pc = "done"
    /\ call.result = "Ok"
    /\ Len(Nodes) = 2
    /\ call.options.env_variables = Some(<<"SN_LOG", "v">>)
    /\ node_registry.environment_variables = Some(<<"SN_LOG", "v">>)
    /\ disk_registry.environment_variables = Some(<<"SN_LOG", "v">>)
    /\ service_manager[1].env_variables = Some(<<"SN_LOG", "all">>)

(***************************************************************************)
(* Properties of the preconditions of add, add_daemon and add_faucet.      *)
(***************************************************************************)
\* the call the step makes fails a precondition, as the state before it and
\* the options of the call tell
PreconditionFails ==
    /\ call.pc \in {"idle", "done"}
    /\ \/ /\ call'.fn = "add"
          /\ \/ /\ call'.options.genesis
                /\ \/ UnwrapOr(call'.options.count, 1) > 1
                   \/ GenesisNodes(node_registry) # {}
             \/ /\ IsSome(call'.options.node_port)
                /\ UnwrapOr(call'.options.count, 1) > 1
       \/ call'.fn = "add_daemon" /\ IsSome(node_registry.daemon)
       \/ call'.fn = "add_faucet" /\ IsSome(node_registry.faucet)

\* C15: a call of add, add_daemon or add_faucet that fails a precondition
\* returns one of the precondition errors and has no side effect: nodes,
\* faucet, daemon, bootstrap_peers and environment_variables are unchanged in
\* the registry and in its file, no file is copied or removed, nothing is saved
\* and the controller is not called.
C15_PreconditionFailureHasNoSideEffects ==
    [][ PreconditionFails =>
          /\ call'.pc = "done"
          /\ call'.result \in {GenesisSingleError, GenesisExistsError, CustomPortError,
                               DaemonExistsError, FaucetExistsError}
          /\ call'.calls = <<>>
          /\ node_registry' = node_registry
          /\ disk_registry' = disk_registry
          /\ service_manager' = service_manager
          /\ staged => staged' ]_vars

\* add_faucet has been refused on a registry that holds a faucet, a daemon and
\* a genesis node
C15_Witness ==
    /\ call.fn = "add_faucet"
    /\ call.result = FaucetExistsError
    /\ IsSome(node_registry.faucet)
    /\ IsSome(node_registry.daemon)
    /\ GenesisNodes(node_registry) # {}

(***************************************************************************)
(* The daemon and the faucet.                                              *)
(***************************************************************************)
ServicesNamed(name) ==
    {i \in 1..Len(service_manager) : service_manager[i].name = <<name, 0>>}

\* C21: the faucet and the daemon are singletons: add_daemon on a registry
\* that holds a daemon record, in whatever status, returns "A safenodemand
\* service has already been created", and add_faucet on a registry that holds a
\* faucet record returns "A faucet service has already been created"; the call
\* leaves the registry, its file and the installed services untouched, so no
\* sequence of calls defines a second daemon or a second faucet.
C21_FaucetAndDaemonAreSingletons ==
    [][/\ (call'.fn = "add_daemon" /\ IsSome(node_registry.daemon)) =>
             /\ call'.result = DaemonExistsError
             /\ UNCHANGED <<node_registry, disk_registry, service_manager>>
       /\ (call'.fn = "add_faucet" /\ IsSome(node_registry.faucet)) =>
             /\ call'.result = FaucetExistsError
             /\ UNCHANGED <<node_registry, disk_registry, service_manager>>
       /\ Cardinality(ServicesNamed("safenodemand")') <= 1
       /\ Cardinality(ServicesNamed("faucet")') <= 1]_vars

\* add_faucet was refused on a registry whose faucet is Running, after
\* add_daemon had been refused or had added the daemon
C21_Witness ==
    /\ call.fn = "add_faucet"
    /\ call.result = FaucetExistsError
    /\ IsSome(node_registry.faucet)
    /\ Unwrap(node_registry.faucet).status = "Running"
    /\ IsSome(node_registry.daemon)
    /\ Len(service_manager) = 2

(***************************************************************************)
(* NAT detection.                                                          *)
(***************************************************************************)
\* the step sends a task to the worker
TaskSent == Len(task_queue') = Len(task_queue) + 1
SentTask == task_queue'[Len(task_queue')]

C23_NoProbeAfterSuccess ==
    [][(nat_detected /\ TaskSent /\ SentTask.type = "MaintainNodes")
          => ~SentTask.run_nat_detection]_vars

(***************************************************************************)
(* Resets.                                                                 *)
(***************************************************************************)
\* the rows of the node table
TableRows(its) == IF IsSome(its) THEN Unwrap(its) ELSE <<>>

\* the ResetNodesCompleted handler: the lock is released, the table has no
\* rows, and StartNodes is returned exactly when trigger_start_node is true;
\* the handler itself sends no task
ResetCompletedHandled ==
    handled' = "ResetNodesCompleted" =>
       /\ lock_registry' = None
       /\ TableRows(items') = <<>>
       /\ task_queue' = task_queue
       /\ action_rx' = IF Head(action_rx).trigger_start_node
                       THEN Append(Tail(action_rx), Act("StartNodes"))
                       ELSE Tail(action_rx)

\* the step sends a MaintainNodes task for the stored node count
MaintainStoredCount ==
    /\ TaskSent
    /\ SentTask.type = "MaintainNodes"
    /\ SentTask.count = nodes_to_start

Named(services, name) ==
    {i \in 1..Len(services) : services[i].service_name = name}

\* C25: in every UpgradeNodes task built by the UpdateNodes action,
\* service_names and peer_ids have the same length, peer_ids[i] is the text of
\* the peer id the view records for the node named service_names[i], and the
\* nodes without a peer id are in neither list while the others are in both.
C25_NamesAndPeerIdsAligned ==
    [][(TaskSent /\ SentTask.type = "UpgradeNodes") =>
          /\ Len(SentTask.services) = Len(SentTask.peer_ids)
          /\ \A i \in 1..Len(SentTask.services) :
                /\ Named(node_services', SentTask.services[i]) # {}
                /\ \A j \in Named(node_services', SentTask.services[i]) :
                      /\ node_services'[j].peer_id # NoPeerId
                      /\ SentTask.peer_ids[i] = to_string(node_services'[j].peer_id)
          /\ \A j \in 1..Len(node_services') :
                (node_services'[j].peer_id # NoPeerId)
                   <=> InSeq(node_services'[j].service_name, SentTask.services)]_vars

\* an UpgradeNodes task was sent for a view of two nodes of which only the
\* second has a peer id
C25_Witness ==
    /\ handled = "UpdateNodes"
    /\ Len(node_services) = 2
    /\ node_services[1].peer_id = NoPeerId
    /\ task_queue # <<>>
    /\ task_queue[Len(task_queue)].type = "UpgradeNodes"
    /\ task_queue[Len(task_queue)].services = <<node_services[2].service_name>>
    /\ task_queue[Len(task_queue)].peer_ids = <<to_string(PeerIdOf(2))>>

\* the worker completes the UpgradeNodes task it is running
UpgradeBatchCompletes ==
    /\ task_queue # <<>>
    /\ Head(task_queue).type = "UpgradeNodes"
    /\ task_queue' = Tail(task_queue)
    /\ action_rx' = Append(action_rx, Act("UpdateNodesCompleted"))

\* C26: an upgrade batch submitted by the UpdateNodes action is paced with
\* fixed_interval = 60000 ms and, when it completes, every node of the batch
\* that was Running before it is Running again with the peer id it had.
C26_UpgradedNodesRunAgain ==
    [][UpgradeBatchCompletes =>
          /\ Head(task_queue).fixed_interval = 60000
          /\ Len(registry'.nodes) = Len(registry.nodes)
          /\ \A i \in 1..Len(registry.nodes) :
                (/\ registry.nodes[i].status = "Running"
                 /\ InSeq(registry.nodes[i].service_name, Head(task_queue).services))
                => /\ registry'.nodes[i].status = "Running"
                   /\ registry'.nodes[i].peer_id = registry.nodes[i].peer_id]_vars

\* C27: Removed records are filtered out of the fleet view: no load leaves a
\* Removed node in node_services, and the services of a StopNodes task and the
\* service names and peer ids of an UpgradeNodes task are those of nodes of the
\* view, never of a Removed record of the registry.
C27_RemovedFilteredOut ==
    [][/\ \A j \in 1..Len(node_services') : node_services'[j].status # "Removed"
       /\ (TaskSent /\ SentTask.type \in {"StopNodes", "UpgradeNodes"}) =>
             /\ \A i \in 1..Len(SentTask.services) :
                   Named(node_services', SentTask.services[i]) # {}
             /\ \A j \in 1..Len(registry.nodes) :
                   registry.nodes[j].status = "Removed" =>
                      /\ ~InSeq(registry.nodes[j].service_name, SentTask.services)
                      /\ registry.nodes[j].peer_id # NoPeerId =>
                            ~InSeq(to_string(registry.nodes[j].peer_id),
                                   SentTask.peer_ids)]_vars

\* an UpgradeNodes task was sent for a registry whose first record is Removed
\* and has a peer id: the task names the second node only
C27_Witness ==
    /\ handled = "UpdateNodes"
    /\ Len(registry.nodes) = 2
    /\ registry.nodes[1].status = "Removed"
    /\ registry.nodes[1].peer_id # NoPeerId
    /\ Len(node_services) = 1
    /\ task_queue # <<>>
    /\ task_queue[Len(task_queue)].type = "UpgradeNodes"
    /\ task_queue[Len(task_queue)].services = <<registry.nodes[2].service_name>>

(***************************************************************************)
(* The port range of a MaintainNodes task.                                 *)
(***************************************************************************)
\* C28: the port range of every MaintainNodes task lies inside
\* [PORT_MIN, PORT_MAX] = [49152, 65535] with its lower bound at most its
\* upper bound, whatever pair of u32 values StorePortRange has stored before.
C28_PortRangeInsideBounds ==
    [][(TaskSent /\ SentTask.type = "MaintainNodes") =>
          /\ PORT_MIN <= SentTask.port_range[1]
          /\ SentTask.port_range[1] <= SentTask.port_range[2]
          /\ SentTask.port_range[2] <= PORT_MAX]_vars

C30_RenameOfMissingFile ==
    [][(archive_op'.fn = "rename_file" /\ archive_op'.args[1] \notin DOMAIN archive.map)
          => /\ archive_op'.result = Err(RenameError_FileNotFound(archive_op'.args[1]))
             /\ archive' = archive]_vars

\* rename_file has failed for a missing old_path while new_path has an entry
C30_Witness ==
    /\ archive_op.fn = "rename_file"
    /\ archive_op.result = Err(RenameError_FileNotFound(archive_op.args[1]))
    /\ archive_op.args[1] \notin DOMAIN archive.map
    /\ archive_op.args[2] \in DOMAIN archive.map

(***************************************************************************)
(* The calls add makes on the service controller.                          *)
(***************************************************************************)
\* the get_available_port and install calls of the call, in order
ControllerCalls ==
    SelectSeq(call.calls, LAMBDA c : c.op \in {"get_available_port", "install"})

\* no port allocation, directory creation, copy, save or removal failed
NoPortOrFsError ==
    \A i \in 1..Len(call.calls) : call.calls[i].op # "install" => call.calls[i].ok

\* the controller calls are those of the first n turns of the loop: for each
\* node number in ascending order, get_available_port and then install of that
\* node
AlternatingFor(n) ==
    /\ Len(ControllerCalls) = 2 * n
    /\ \A i \in 1..n :
          /\ ControllerCalls[2 * i - 1].op = "get_available_port"
          /\ ControllerCalls[2 * i].op = "install"
          /\ ControllerCalls[2 * i].name = ServiceName(call.current_node_count + i)

\* C31: an add of k nodes that meets no port-allocation or file-system error
\* makes exactly k get_available_port and k install calls on the controller
\* and no other, alternating port then install, the nodes in ascending node
\* number, whichever installs fail.
C31_ControllerCallsAlternate ==
    (/\ call.fn = "add"
     /\ call.pc = "done"
     /\ call.result \in {"Ok", "Failed to add one or more services"})
    => /\ NoPortOrFsError
       /\ AlternatingFor(UnwrapOr(call.options.count, 1))

\* an add of two nodes has returned, the first install having failed and the
\* second succeeded
C31_Witness ==
    /\ call.fn = "add"
    /\ call.pc = "done"
    /\ call.options.count = Some(2)
    /\ call.result = "Failed to add one or more services"
    /\ Len(ControllerCalls) = 4
    /\ ~ControllerCalls[2].ok
    /\ ControllerCalls[4].ok

(***************************************************************************)
(* The MaintainNodes tasks of the status component.                        *)
(***************************************************************************)
\* the action the handler returned
Returned_action == action_rx'[Len(action_rx')]

\* C32: every MaintainNodes task the status component sends has count =
\* nodes_to_start >= 1 and a non-empty rewards address; a StartNodes action
\* with an empty rewards address or with nodes_to_start = 0 sends no task,
\* leaves the lock alone and returns TriggerRewardsAddress, resp.
\* TriggerManageNodes; StoreNodesToStart(0) returns StopNodes.
C32_MaintainNodesCountAndAddress ==
    [][ /\ (TaskSent /\ SentTask.type = "MaintainNodes")
            => /\ SentTask.count = nodes_to_start
               /\ SentTask.count >= 1
               /\ rewards_address # ""
        /\ (handled' = "StartNodes" /\ rewards_address = "")
            => /\ task_queue' = task_queue
               /\ lock_registry' = lock_registry
               /\ Returned_action = Act("TriggerRewardsAddress")
        /\ (handled' = "StartNodes" /\ rewards_address # "" /\ nodes_to_start = 0)
            => /\ task_queue' = task_queue
               /\ lock_registry' = lock_registry
               /\ Returned_action = Act("TriggerManageNodes")
        /\ (handled' = "StoreNodesToStart" /\ nodes_to_start' = 0)
            => /\ task_queue' = task_queue
               /\ Returned_action = Act("StopNodes") ]_vars

\* the same for node counts that fit in 16 bits
C32_MaintainNodesCountWithinU16 ==
    [][ /\ (TaskSent /\ SentTask.type = "MaintainNodes" /\ nodes_to_start < 65536)
            => /\ SentTask.count = nodes_to_start
               /\ SentTask.count >= 1
               /\ rewards_address # ""
        /\ (handled' = "StartNodes" /\ rewards_address = "")
            => /\ task_queue' = task_queue
               /\ lock_registry' = lock_registry
               /\ Returned_action = Act("TriggerRewardsAddress")
        /\ (handled' = "StartNodes" /\ rewards_address # "" /\ nodes_to_start = 0)
            => /\ task_queue' = task_queue
               /\ lock_registry' = lock_registry
               /\ Returned_action = Act("TriggerManageNodes")
        /\ (handled' = "StoreNodesToStart" /\ nodes_to_start' = 0)
            => /\ task_queue' = task_queue
               /\ Returned_action = Act("StopNodes") ]_vars

\* the events with which the worker reports back on a task
WorkerEvents ==
    CompletionEvents \cup ErrorEvents
    \cup {"SuccessfullyDetectedNatStatus", "ErrorWhileRunningNatDetection"}

\* a task is with the worker, or the worker's report on it has yet to be handled
TaskInFlight ==
    \/ task_queue # <<>>
    \/ \E i \in 1..Len(action_rx) : action_rx[i].type \in WorkerEvents

\* C33: the lock is never left set with no task in flight: whenever
\* lock_registry is not None a task has been handed to the worker and its
\* report has not yet been handled, also after a handler failed to obtain the
\* action sender.
C33_LockedOnlyWhileTaskInFlight ==
    lock_registry # None => TaskInFlight

(***************************************************************************)
(* The registry in memory and the registry file.                           *)
(***************************************************************************)
\* C34: whenever add, add_faucet or add_daemon returns, with Ok or with any
\* error, the registry in memory equals the persisted one, given that it did
\* when the function was called: no record is in memory that was not written
\* to disk.  The two are equal before the first call, so they are equal
\* whenever no call is under way.
C34_MemoryEqualsDiskOnReturn ==
    call.pc \in {"idle", "done"} => node_registry = disk_registry

\* the node records of `before` are the first records of `after`, unchanged and
\* in the same order
ExtendsNodes(before, after) ==
    /\ Len(after.nodes) >= Len(before.nodes)
    /\ SubSeq(after.nodes, 1, Len(before.nodes)) = before.nodes

\* C35: add only appends: whatever the options and the install outcomes, no
\* step of add modifies, reorders or removes a node record that was there
\* and none changes the faucet or the daemon record; add_faucet and
\* add_daemon change neither the nodes, nor the bootstrap peers, nor each
\* other's record.
C35_AddOnlyAppends ==
    [][ /\ call'.fn = "add"
            => /\ ExtendsNodes(node_registry, node_registry')
               /\ node_registry'.faucet = node_registry.faucet
               /\ node_registry'.daemon = node_registry.daemon
        /\ call'.fn = "add_faucet"
            => /\ node_registry'.nodes = node_registry.nodes
               /\ node_registry'.bootstrap_peers = node_registry.bootstrap_peers
               /\ node_registry'.daemon = node_registry.daemon
        /\ call'.fn = "add_daemon"
            => /\ node_registry'.nodes = node_registry.nodes
               /\ node_registry'.bootstrap_peers = node_registry.bootstrap_peers
               /\ node_registry'.faucet = node_registry.faucet ]_vars

\* an add has returned that put a node behind the nodes of a registry which
\* holds a faucet and a daemon as well
C35_Witness ==
    /\ call.fn = "add"
    /\ call.pc = "done"
    /\ call.current_node_count >= 1
    /\ call.added_service_data # <<>>
    /\ Len(node_registry.nodes) > call.current_node_count
    /\ IsSome(node_registry.faucet)
    /\ IsSome(node_registry.daemon)

(***************************************************************************)
(* The bootstrap peers of an install.                                      *)
(***************************************************************************)
\* the install context of the node the step installed
InstalledCtx == service_manager'[Len(service_manager')]

\* C36: every node installed by add is given, as the peers of its install
\* context, every bootstrap peer the registry records at install time: the
\* registry's peers after the merge, not only those supplied in the call.
C36_InstalledWithRegistryPeers ==
    [][ (call'.fn = "add" /\ Len(service_manager') = Len(service_manager) + 1)
        => \A i \in 1..Len(node_registry.bootstrap_peers) :
              InSeq(node_registry.bootstrap_peers[i], InstalledCtx.bootstrap_peers)
      ]_vars

(***************************************************************************)
(* What a rename leaves of the archive.                                    *)
(***************************************************************************)
\* C37: when rename_file(old_path, new_path) succeeds, new_path maps to the
\* data access old_path had, with the same metadata but for `modified`;
\* old_path is gone unless it equals new_path; every other entry is as it
\* was, an entry that was at new_path being replaced; the number of files
\* does not grow, and it falls by one exactly when new_path had an entry and
\* differs from old_path.
C37_RenameFrame ==
    [][ (archive_op'.fn = "rename_file" /\ archive_op'.result.ok)
        => LET old_path == archive_op'.args[1]
               new_path == archive_op'.args[2]
               before == archive.map
               after == archive'.map
           IN  /\ old_path \in DOMAIN before
               /\ new_path \in DOMAIN after
               /\ after[new_path][1] = before[old_path][1]
               /\ [after[new_path][2] EXCEPT !.modified = before[old_path][2].modified]
                     = before[old_path][2]
               /\ old_path # new_path => old_path \notin DOMAIN after
               /\ \A p \in (DOMAIN before \cup DOMAIN after) \ {old_path, new_path} :
                     /\ p \in DOMAIN before
                     /\ p \in DOMAIN after
                     /\ after[p] = before[p]
               /\ Cardinality(DOMAIN after) <= Cardinality(DOMAIN before)
               /\ (Cardinality(DOMAIN after) = Cardinality(DOMAIN before) - 1)
                     <=> (new_path \in DOMAIN before /\ new_path # old_path)
      ]_vars

\* a file has been renamed to another path in an archive that holds a third
\* file, and its modification time is no longer its creation time
C37_Witness ==
    /\ archive_op.fn = "rename_file"
    /\ archive_op.result.ok
    /\ archive_op.args[1] # archive_op.args[2]
    /\ archive_op.args[1] \notin DOMAIN archive.map
    /\ archive_op.args[2] \in DOMAIN archive.map
    /\ Cardinality(DOMAIN archive.map) = 2
    /\ archive.map[archive_op.args[2]][2].modified
          # archive.map[archive_op.args[2]][2].created

(***************************************************************************)
(* The selection of the node table.                                        *)
(***************************************************************************)
\* C38: whatever the sequence of NextTableItem, PreviousTableItem, table
\* clearings and insertions, next and previous never evaluate len - 1 with
\* len = 0, and they leave the selected index inside [0, len - 1] when the
\* table has rows.
C38_SelectionStaysInRange ==
    [][ /\ handled' # "panic"
        /\ (handled' = "NextTableItem" /\ IsSome(items))
            => ~next_len_underflows(table_state, Len(TableRows(items)))
        /\ (handled' = "PreviousTableItem" /\ IsSome(items))
            => ~previous_len_underflows(table_state, Len(TableRows(items)))
        /\ (handled' \in {"NextTableItem", "PreviousTableItem"}
            /\ TableRows(items) # <<>>)
            => Unwrap(table_state'.selected) \in 0..(Len(TableRows(items)) - 1)
      ]_vars

====
